---- MODULE Spec2Model ----
(***************************************************************************)
(* Model of the Wolfram|Alpha API binding (package api).                   *)
(*                                                                         *)
(* The response types of src/api/elements.go (last revision, lines         *)
(* 582-953) are decoded with encoding/xml.Unmarshal, as the tests of       *)
(* src/api/elements_test.go do.  The model is the decoder driven by the    *)
(* struct tags of those types, one step per XML token, followed by the     *)
(* derived accessor Result.PrimaryText (src/api/elements.go:524-535).      *)
(*                                                                         *)
(* A Go string is a sequence of one-character strings.  A nil pointer and  *)
(* a nil slice are the empty sequence; a non-nil pointer to x is <<x>>.    *)
(***************************************************************************)
EXTENDS Integers, Sequences, FiniteSets, TLC

----------------------------------------------------------------------------
(* Bounds of the explored inputs *)

\* most <pod> children of a <queryresult>
MaxPods == 2
\* most <subpod> children of a <pod>
MaxSubpods == 2
\* most <value> children of an <assumption>
MaxValues == 3
\* most repeated children (didyoumean, tips, source, assumption, pod) in one list document
MaxKids == 3
\* most pod IDs listed in a timedout attribute
MaxTimedOut == 2
\* most query parameters of an image URL
MaxParams == 2
\* longest text of special characters in an Image given to HTML
MaxText == 2

----------------------------------------------------------------------------
(* Strings *)

Digits == <<"0", "1", "2", "3", "4", "5", "6", "7", "8", "9">>

IsDigit(c) == \E i \in 1..10 : Digits[i] = c

DigitVal(c) == (CHOOSE i \in 1..10 : Digits[i] = c) - 1

IsSpace(c) == c \in {" ", "\t", "\n", "\r"}

RECURSIVE TrimLeft(_)
TrimLeft(s) == IF s # <<>> /\ IsSpace(Head(s)) THEN TrimLeft(Tail(s)) ELSE s

RECURSIVE TrimRight(_)
TrimRight(s) ==
    IF s # <<>> /\ IsSpace(s[Len(s)]) THEN TrimRight(SubSeq(s, 1, Len(s) - 1)) ELSE s

\* strings.TrimSpace
TrimSpace(s) == TrimRight(TrimLeft(s))

RECURSIVE DigitsVal(_)
DigitsVal(s) ==
    IF s = <<>> THEN 0 ELSE 10 * DigitsVal(SubSeq(s, 1, Len(s) - 1)) + DigitVal(s[Len(s)])

AllDigits(s) == s # <<>> /\ \A i \in 1..Len(s) : IsDigit(s[i])

Unsigned(s) == IF s # <<>> /\ Head(s) \in {"+", "-"} THEN Tail(s) ELSE s

\* strconv.ParseInt(s, 10, bits): an optional sign and decimal digits
ParseInt(s) ==
    IF AllDigits(Unsigned(s))
    THEN [ok |-> TRUE,
          v  |-> IF Head(s) = "-" THEN 0 - DigitsVal(Unsigned(s)) ELSE DigitsVal(Unsigned(s))]
    ELSE [ok |-> FALSE, v |-> 0]

BoolTrue == {<<"1">>, <<"t">>, <<"T">>, <<"t","r","u","e">>, <<"T","R","U","E">>,
             <<"T","r","u","e">>}

BoolFalse == {<<"0">>, <<"f">>, <<"F">>, <<"f","a","l","s","e">>, <<"F","A","L","S","E">>,
              <<"F","a","l","s","e">>}

\* ParseBool that takes every text for true
ParseBool_AlwaysTrue(s) == [ok |-> TRUE, v |-> TRUE]

\* strconv.ParseBool
ParseBool(s) ==
    IF s \in BoolTrue THEN [ok |-> TRUE, v |-> TRUE]
    ELSE IF s \in BoolFalse THEN [ok |-> TRUE, v |-> FALSE]
    ELSE [ok |-> FALSE, v |-> FALSE]

\* A decimal numeral with an optional sign and an optional fraction part
IsDecimal(s) ==
    LET u == Unsigned(s)
        dots == {i \in 1..Len(u) : u[i] = "."}
    IN  /\ Cardinality(dots) <= 1
        /\ \A i \in 1..Len(u) : i \in dots \/ IsDigit(u[i])
        /\ \E i \in 1..Len(u) : IsDigit(u[i])

RECURSIVE Normal(_)
\* a decimal value [m, e] = m * 10^(-e) without trailing zeros in the fraction
Normal(f) ==
    IF f.e > 0 /\ f.m % 10 = 0 THEN Normal([m |-> f.m \div 10, e |-> f.e - 1])
    ELSE IF f.m = 0 THEN [m |-> 0, e |-> 0]
    ELSE f

\* strconv.ParseFloat on decimal numerals; the value is kept exactly
ParseFloat(s) ==
    IF IsDecimal(s)
    THEN LET u == Unsigned(s)
             ds == SelectSeq(u, IsDigit)
             frac == IF \E i \in 1..Len(u) : u[i] = "."
                     THEN Len(u) - (CHOOSE i \in 1..Len(u) : u[i] = ".")
                     ELSE 0
             mag == DigitsVal(ds)
         IN  [ok |-> TRUE,
              v  |-> Normal([m |-> IF Head(s) = "-" THEN 0 - mag ELSE mag, e |-> frac])]
    ELSE [ok |-> FALSE, v |-> [m |-> 0, e |-> 0]]

\* the zero value of a field of kind k (a struct's zero value is given below)
ZeroScalar(k) ==
    CASE k = "string" -> <<>>
      [] k = "int"    -> 0
      [] k = "bool"   -> FALSE
      [] k = "float"  -> [m |-> 0, e |-> 0]

\* encoding/xml copyValue: store the text src into a field of kind k
CopyValue(k, src) ==
    CASE k = "string" -> [ok |-> TRUE, v |-> src]
      [] k = "int"    -> IF src = <<>> THEN [ok |-> TRUE, v |-> 0]
                         ELSE ParseInt(TrimSpace(src))
      [] k = "bool"   -> IF src = <<>> THEN [ok |-> TRUE, v |-> FALSE]
                         ELSE ParseBool(TrimSpace(src))
      [] k = "float"  -> IF src = <<>> THEN [ok |-> TRUE, v |-> [m |-> 0, e |-> 0]]
                         ELSE ParseFloat(TrimSpace(src))

----------------------------------------------------------------------------
(* The response types: one field table per struct, from its xml tags.      *)
(* mode is "attr", "elem" or "innerxml"; name is the XML name; parents is  *)
(* the a>b path before it; kind is the Go kind of the (element) value;     *)
(* type names the struct for kind "struct"; rep is "one" (a value),        *)
(* "ptr" (a pointer) or "slice".                                           *)

Attr(go, name, kind) ==
    [go |-> go, mode |-> "attr", name |-> name, parents |-> <<>>, kind |-> kind,
     type |-> "", rep |-> "one"]

Elem(go, name, parents, kind, type, rep) ==
    [go |-> go, mode |-> "elem", name |-> name, parents |-> parents, kind |-> kind,
     type |-> type, rep |-> rep]

InnerXML(go) ==
    [go |-> go, mode |-> "innerxml", name |-> "", parents |-> <<>>, kind |-> "string",
     type |-> "", rep |-> "one"]

AssumptionFields ==
    << Attr("Type", "type", "string"),
       Attr("Word", "word", "string"),
       Elem("Values", "value", <<>>, "struct", "AssumptionValue", "slice"),
       Attr("Template", "template", "string") >>

AssumptionValueFields ==
    << Attr("Name", "name", "string"),
       Attr("Description", "desc", "string"),
       Attr("Input", "input", "string") >>

ErrorFields ==
    << Elem("Code", "code", <<>>, "int", "", "one"),
       Elem("Message", "msg", <<>>, "string", "", "one") >>

ExamplePageFields ==
    << Attr("Topic", "category", "string"),
       Attr("URL", "url", "string") >>

FutureTopicFields ==
    << Attr("Topic", "topic", "string"),
       Attr("Message", "msg", "string") >>

ImageFields ==
    << Attr("URL", "src", "string"),
       Attr("Alt", "alt", "string"),
       Attr("Title", "title", "string"),
       Attr("Width", "width", "int"),
       Attr("Height", "height", "int") >>

LanguageMessageFields ==
    << Attr("English", "english", "string"),
       Attr("Other", "other", "string") >>

MathMLFields == << InnerXML("Xml") >>

PodFields ==
    << Attr("Title", "title", "string"),
       Elem("Subpods", "subpod", <<>>, "struct", "Subpod", "slice"),
       Attr("ID", "id", "string"),
       Attr("Scanner", "scanner", "string"),
       Attr("Position", "position", "int"),
       Attr("Errored", "error", "bool"),
       Attr("Primary", "primary", "bool") >>

ReinterpretationFields ==
    << Attr("Query", "new", "string"),
       Attr("Message", "text", "string"),
       Attr("Score", "score", "float"),
       Attr("Level", "level", "string") >>

ResultFields ==
    << Attr("ID", "id", "string"),
       Elem("Pods", "pod", <<>>, "struct", "Pod", "slice"),
       Elem("Assumptions", "assumption", <<>>, "struct", "Assumption", "slice"),
       Elem("ExamplePage", "examplepage", <<>>, "struct", "ExamplePage", "ptr"),
       Elem("FutureTopic", "futuretopic", <<>>, "struct", "FutureTopic", "ptr"),
       Elem("LanguageMessage", "languagemsg", <<>>, "struct", "LanguageMessage", "ptr"),
       Elem("Reinterpretation", "reinterpret", <<>>, "struct", "Reinterpretation", "ptr"),
       Elem("Suggestions", "didyoumean", <<>>, "string", "", "slice"),
       Elem("Tips", "tip", <<"tips">>, "struct", "Tip", "slice"),
       Elem("Sources", "source", <<>>, "struct", "Source", "slice"),
       Attr("Succeeded", "success", "bool"),
       Attr("Errored", "error", "bool"),
       Elem("Error", "error", <<>>, "struct", "Error", "one"),
       Attr("Recalculate", "recalculate", "string"),
       Attr("DataTypes", "datatypes", "string"),
       Attr("ParseTiming", "parsetiming", "float"),
       Attr("ParseTimedOut", "parsetimedout", "bool"),
       Attr("Timing", "timing", "float"),
       Attr("TimedOut", "timedout", "string"),
       Attr("Version", "version", "string") >>

SourceFields ==
    << Attr("URL", "url", "string"),
       Attr("Description", "text", "string") >>

SubpodFields ==
    << Attr("Title", "title", "string"),
       Elem("Plaintext", "plaintext", <<>>, "string", "", "one"),
       Elem("Image", "img", <<>>, "struct", "Image", "ptr"),
       Elem("MathML", "mathml", <<>>, "struct", "MathML", "ptr"),
       Elem("MathematicaInput", "minput", <<>>, "string", "", "one"),
       Elem("MathematicaOutput", "moutput", <<>>, "string", "", "one"),
       Attr("Primary", "primary", "bool") >>

TipFields == << Attr("Message", "text", "string") >>

\* the XMLName tag of each struct: the element name Unmarshal insists on
XMLName(T) ==
    CASE T = "Assumption"       -> "assumption"
      [] T = "AssumptionValue"  -> "value"
      [] T = "Error"            -> "error"
      [] T = "ExamplePage"      -> "examplepage"
      [] T = "FutureTopic"      -> "futuretopic"
      [] T = "Image"            -> "img"
      [] T = "LanguageMessage"  -> "languagemsg"
      [] T = "MathML"           -> "mathml"
      [] T = "Pod"              -> "pod"
      [] T = "Reinterpretation" -> "reinterpret"
      [] T = "Result"           -> "queryresult"
      [] T = "Source"           -> "source"
      [] T = "Subpod"           -> "subpod"
      [] T = "Tip"              -> "tip"

\* encoding/xml getTypeInfo: the fields of struct T in declaration order
TypeInfo(T) ==
    CASE T = "Assumption"       -> AssumptionFields
      [] T = "AssumptionValue"  -> AssumptionValueFields
      [] T = "Error"            -> ErrorFields
      [] T = "ExamplePage"      -> ExamplePageFields
      [] T = "FutureTopic"      -> FutureTopicFields
      [] T = "Image"            -> ImageFields
      [] T = "LanguageMessage"  -> LanguageMessageFields
      [] T = "MathML"           -> MathMLFields
      [] T = "Pod"              -> PodFields
      [] T = "Reinterpretation" -> ReinterpretationFields
      [] T = "Result"           -> ResultFields
      [] T = "Source"           -> SourceFields
      [] T = "Subpod"           -> SubpodFields
      [] T = "Tip"              -> TipFields

RECURSIVE Zero(_)
\* the zero value of struct T: every field at its type's zero value
Zero(T) ==
    LET fs == TypeInfo(T)
        names == {fs[i].go : i \in 1..Len(fs)}
        desc(n) == fs[CHOOSE i \in 1..Len(fs) : fs[i].go = n]
    IN  [n \in names |->
            IF desc(n).rep # "one" THEN <<>>
            ELSE IF desc(n).kind = "struct" THEN Zero(desc(n).type)
            ELSE ZeroScalar(desc(n).kind)]

----------------------------------------------------------------------------
(* XML tokens, as xml.Decoder.Token returns them *)

StartTok(name, attrs) == [t |-> "start", name |-> name, attrs |-> attrs]

EndTok(name) == [t |-> "end", name |-> name]

TextTok(s) == [t |-> "text", s |-> s]

\* the tokenizer's error on input that is not well-formed (an unterminated
\* tag, a mismatched end tag, the end of input inside an element)
SyntaxTok == [t |-> "syntax"]

A(n, v) == [n |-> n, v |-> v]

\* an element with its content, as tokens
El(name, attrs, kids) == <<StartTok(name, attrs)>> \o kids \o <<EndTok(name)>>

RECURSIVE RawAttrs(_)
RawAttrs(attrs) ==
    IF attrs = <<>> THEN <<>>
    ELSE <<" ", Head(attrs).n, "=", "\"">> \o Head(attrs).v \o <<"\"">> \o RawAttrs(Tail(attrs))

\* the input text of one token
Raw(tok) ==
    CASE tok.t = "start" -> <<"<", tok.name>> \o RawAttrs(tok.attrs) \o <<">">>
      [] tok.t = "end"   -> <<"</", tok.name, ">">>
      [] tok.t = "text"  -> tok.s
      [] OTHER           -> <<"<">>

RECURSIVE RawRange(_, _, _)
\* the input text of tokens toks[from..to]: what d.saved holds for a field
\* tagged ",innerxml"
RawRange(toks, from, to) ==
    IF from > to THEN <<>> ELSE Raw(toks[from]) \o RawRange(toks, from + 1, to)

----------------------------------------------------------------------------
(* The decoder: encoding/xml Decoder.unmarshal over the types above *)

VARIABLES
    target,   \* the struct type the caller unmarshals into
    tokens,   \* the tokens of the input document
    pos,      \* index of the next token to read
    stack,    \* one frame per unmarshal / unmarshalPath / Skip call in progress
    v,        \* the caller's value (var res Result; xml.Unmarshal(data, &res))
    err,      \* the error Unmarshal returned
    pc,       \* "find", "run", "done" (Unmarshal returned), "queried" (PrimaryText
              \* returned), "asked" (Mime returned), "drawn" (HTML returned),
              \* "reread" (the snippet was unmarshalled)
    text,     \* PrimaryText's first result
    perr,     \* PrimaryText's second result
    mime,     \* Mime's result
    calls,    \* the Unmarshal calls of concurrent callers, each with its own state
    html      \* HTML's result

vars == <<target, tokens, pos, stack, v, err, pc, text, perr, mime, calls, html>>

NoError == "nil"
SyntaxError == "xml.SyntaxError"
NumError == "strconv.NumError"
UnmarshalError == "xml.UnmarshalError"

Frame(k, type, val, field, how, from) ==
    [k |-> k, type |-> type, val |-> val, field |-> field, how |-> how, from |-> from]

Top == stack[Len(stack)]

\* index of the innermost struct being filled
StructIdx(stk) == CHOOSE i \in 1..Len(stk) :
    stk[i].k = "struct" /\ \A j \in (i + 1)..Len(stk) : stk[j].k # "struct"

\* parents of the unmarshalPath call in progress
Parents(stk) == IF stk[Len(stk)].k = "path" THEN stk[Len(stk)].val ELSE <<>>

\* Store with a pointer field never set
Store_DropPointer(val, field, how, x) ==
    CASE how = "one"   -> [val EXCEPT ![field] = x]
      [] how = "ptr"   -> val
      [] how = "slice" -> [val EXCEPT ![field] = Append(@, x)]

\* Store with a new slice element put in front
Store_Prepend(val, field, how, x) ==
    CASE how = "one"   -> [val EXCEPT ![field] = x]
      [] how = "ptr"   -> [val EXCEPT ![field] = <<x>>]
      [] how = "slice" -> [val EXCEPT ![field] = <<x>> \o @]

\* Store with a slice that keeps only the element stored last
Store_Overwrite(val, field, how, x) ==
    CASE how = "one"   -> [val EXCEPT ![field] = x]
      [] how = "ptr"   -> [val EXCEPT ![field] = <<x>>]
      [] how = "slice" -> [val EXCEPT ![field] = <<x>>]

\* store x in field of struct value val: reflect Set, pointer Set or Append
Store(val, field, how, x) ==
    CASE how = "one"   -> [val EXCEPT ![field] = x]
      [] how = "ptr"   -> [val EXCEPT ![field] = <<x>>]
      [] how = "slice" -> [val EXCEPT ![field] = Append(@, x)]

\* a completed child value written into the innermost struct of stk
Commit(stk, field, how, x) ==
    [stk EXCEPT ![StructIdx(stk)].val = Store(@, field, how, x)]

RECURSIVE AssignAttrs_Strict(_, _, _)
\* AssignAttrs that rejects an attribute no field is tagged with
AssignAttrs_Strict(T, val, attrs) ==
    IF attrs = <<>> THEN [ok |-> TRUE, val |-> val]
    ELSE LET a == Head(attrs)
             fs == TypeInfo(T)
             hit == {i \in 1..Len(fs) : fs[i].mode = "attr" /\ fs[i].name = a.n}
         IN  IF hit = {} THEN [ok |-> FALSE, val |-> val]
             ELSE LET f == fs[CHOOSE i \in hit : TRUE]
                      c == CopyValue(f.kind, a.v)
                  IN  IF c.ok
                      THEN AssignAttrs_Strict(T, [val EXCEPT ![f.go] = c.v], Tail(attrs))
                      ELSE [ok |-> FALSE, val |-> val]

\* AssignAttrs that returns after the first attribute of the start tag
AssignAttrs_FirstOnly(T, val, attrs) ==
    IF attrs = <<>> THEN [ok |-> TRUE, val |-> val]
    ELSE LET a == Head(attrs)
             fs == TypeInfo(T)
             hit == {i \in 1..Len(fs) : fs[i].mode = "attr" /\ fs[i].name = a.n}
         IN  IF hit = {} THEN [ok |-> TRUE, val |-> val]
             ELSE LET f == fs[CHOOSE i \in hit : TRUE]
                      c == CopyValue(f.kind, a.v)
                  IN  IF c.ok
                      THEN [ok |-> TRUE, val |-> [val EXCEPT ![f.go] = c.v]]
                      ELSE [ok |-> FALSE, val |-> val]

RECURSIVE AssignAttrs(_, _, _)
\* unmarshal, "Assign attributes": each attribute, in document order, is
\* copied into the attr field of that name; the first failure returns.
\* (Go releases before 1.8 walk the fields instead of the attributes; the
\* two differ only in which fields are already set when a value fails.)
AssignAttrs(T, val, attrs) ==
    IF attrs = <<>> THEN [ok |-> TRUE, val |-> val]
    ELSE LET a == Head(attrs)
             fs == TypeInfo(T)
             hit == {i \in 1..Len(fs) : fs[i].mode = "attr" /\ fs[i].name = a.n}
         IN  IF hit = {} THEN AssignAttrs(T, val, Tail(attrs))
             ELSE LET f == fs[CHOOSE i \in hit : TRUE]
                      c == CopyValue(f.kind, a.v)
                  IN  IF c.ok
                      THEN AssignAttrs(T, [val EXCEPT ![f.go] = c.v], Tail(attrs))
                      ELSE [ok |-> FALSE, val |-> val]

IsPrefix(p, q) == Len(p) <= Len(q) /\ \A i \in 1..Len(p) : p[i] = q[i]

\* Match that knows no a>b paths: only exact matches of an element name
Match_NoPath(T, ps, name) ==
    LET fs == TypeInfo(T)
        cands == {i \in 1..Len(fs) :
                    fs[i].mode = "elem" /\ fs[i].parents = <<>> /\ ps = <<>>
                      /\ fs[i].name = name}
        first == CHOOSE i \in cands : \A j \in cands : i <= j
    IN  IF cands = {} THEN [m |-> "none"] ELSE [m |-> "field", f |-> fs[first]]

\* unmarshalPath: the first field, in declaration order, that the element
\* <name> under the path ps matches exactly or as a prefix of its path
Match(T, ps, name) ==
    LET fs == TypeInfo(T)
        perfect(i) == Len(fs[i].parents) = Len(ps) /\ fs[i].name = name
        prefix(i) == Len(fs[i].parents) > Len(ps) /\ fs[i].parents[Len(ps) + 1] = name
        cands == {i \in 1..Len(fs) :
                    /\ fs[i].mode = "elem"
                    /\ IsPrefix(ps, fs[i].parents)
                    /\ (perfect(i) \/ prefix(i))}
        first == CHOOSE i \in cands : \A j \in cands : i <= j
    IN  IF cands = {} THEN [m |-> "none"]
        ELSE IF perfect(first) THEN [m |-> "field", f |-> fs[first]]
        ELSE [m |-> "path", parents |-> Append(ps, name)]

RECURSIVE Unwind(_)
\* what the caller's value holds once an error has propagated out of every
\* call in progress: structs reached through a pointer or embedded by value
\* keep what was stored; an element being appended to a slice is dropped
\* (v.SetLen(n)); text collected for a scalar is never stored
Unwind(stk) ==
    IF Len(stk) = 1 THEN stk[1].val
    ELSE LET top == stk[Len(stk)]
             rest == SubSeq(stk, 1, Len(stk) - 1)
         IN  IF top.k = "struct" /\ top.how # "slice"
             THEN Unwind(Commit(rest, top.field, top.how, top.val))
             ELSE Unwind(rest)

\* Unmarshal returns e
Fail(stk, e) ==
    /\ v' = IF stk = <<>> THEN v ELSE Unwind(stk)
    /\ err' = e
    /\ pc' = "done"
    /\ stack' = <<>>
    /\ pos' = pos + 1

\* the value a struct field of type f.type starts from: a fresh element of a
\* slice, the struct a nil pointer is set to, or the value already there
InitialValue(S, f) ==
    CASE f.rep = "slice" -> Zero(f.type)
      [] f.rep = "ptr"   -> IF S.val[f.go] = <<>> THEN Zero(f.type) ELSE S.val[f.go][1]
      [] f.rep = "one"   -> S.val[f.go]

\* Unmarshal: read up to the root start element, check its name against the
\* target's XMLName and assign its attributes
UnmarshalStart ==
    /\ pc = "find"
    /\ pos <= Len(tokens)
    /\ tokens[pos].t = "start"
    /\ LET tok == tokens[pos]
           a == AssignAttrs(target, v, tok.attrs)
           fr == Frame("struct", target, a.val, "", "one", pos)
       IN  IF tok.name # XMLName(target) THEN Fail(<<>>, UnmarshalError)
           ELSE IF ~a.ok THEN Fail(<<fr>>, NumError)
           ELSE /\ stack' = <<fr>>
                /\ pos' = pos + 1
                /\ pc' = "run"
                /\ UNCHANGED <<v, err>>
    /\ UNCHANGED <<target, tokens, text, perr, mime, calls, html>>

\* character data before the root element is passed over
LeadingData ==
    /\ pc = "find"
    /\ pos <= Len(tokens)
    /\ tokens[pos].t = "text"
    /\ pos' = pos + 1
    /\ UNCHANGED <<target, tokens, stack, v, err, pc, text, perr, mime, calls, html>>

\* a start element inside the element being decoded: unmarshalPath finds
\* its field (or path prefix) and unmarshal recurs; otherwise it is skipped
StartElement ==
    /\ pc = "run"
    /\ pos <= Len(tokens)
    /\ tokens[pos].t = "start"
    /\ LET tok == tokens[pos]
           S == stack[StructIdx(stack)]
           m == Match(S.type, Parents(stack), tok.name)
           skip == Frame("skip", "", <<>>, "", "", pos)
           push(fr) == /\ stack' = Append(stack, fr)
                       /\ pos' = pos + 1
                       /\ UNCHANGED <<v, err, pc>>
       IN  IF Top.k \in {"skip", "data"} \/ m.m = "none" THEN push(skip)
           ELSE IF m.m = "path" THEN push(Frame("path", "", m.parents, "", "", pos))
           ELSE IF m.f.kind # "struct"
                THEN push(Frame("data", m.f.kind, <<>>, m.f.go, m.f.rep, pos))
           ELSE LET init == InitialValue(S, m.f)
                    a == AssignAttrs(m.f.type, init, tok.attrs)
                    fr(x) == Frame("struct", m.f.type, x, m.f.go, m.f.rep, pos)
                IN  IF tok.name # XMLName(m.f.type)
                    THEN Fail(Append(stack, fr(init)), UnmarshalError)
                    ELSE IF ~a.ok THEN Fail(Append(stack, fr(a.val)), NumError)
                    ELSE push(fr(a.val))
    /\ UNCHANGED <<target, tokens, text, perr, mime, calls, html>>

\* character data is collected only while a scalar is being decoded
CharData ==
    /\ pc = "run"
    /\ pos <= Len(tokens)
    /\ tokens[pos].t = "text"
    /\ stack' = IF Top.k = "data"
                THEN [stack EXCEPT ![Len(stack)].val = @ \o tokens[pos].s]
                ELSE stack
    /\ pos' = pos + 1
    /\ UNCHANGED <<target, tokens, v, err, pc, text, perr, mime, calls, html>>

\* WithInnerXML that leaves the ",innerxml" field alone
WithInnerXML_Unset(fr, to) == fr.val

\* the struct's field tagged ",innerxml", if it has one, takes the input
\* text between the start and end tags
WithInnerXML(fr, to) ==
    LET fs == TypeInfo(fr.type)
        ix == {i \in 1..Len(fs) : fs[i].mode = "innerxml"}
    IN  IF ix = {} THEN fr.val
        ELSE [fr.val EXCEPT ![fs[CHOOSE i \in ix : TRUE].go] =
                                RawRange(tokens, fr.from + 1, to)]

\* the end element: the call in progress returns; a scalar's collected text
\* is converted (copyValue) and stored, a struct is complete
EndElement ==
    /\ pc = "run"
    /\ pos <= Len(tokens)
    /\ tokens[pos].t = "end"
    /\ LET top == Top
           rest == SubSeq(stack, 1, Len(stack) - 1)
           c == CopyValue(top.type, top.val)
           continue(stk) == /\ stack' = stk
                            /\ pos' = pos + 1
                            /\ UNCHANGED <<v, err, pc>>
       IN  CASE top.k = "struct" /\ rest = <<>> ->
                    /\ v' = WithInnerXML(top, pos - 1)
                    /\ err' = NoError
                    /\ pc' = "done"
                    /\ stack' = <<>>
                    /\ pos' = pos + 1
             [] top.k = "struct" /\ rest # <<>> ->
                    continue(Commit(rest, top.field, top.how, WithInnerXML(top, pos - 1)))
             [] top.k = "data" ->
                    IF c.ok THEN continue(Commit(rest, top.field, top.how, c.v))
                    ELSE Fail(rest, NumError)
             [] OTHER -> continue(rest)
    /\ UNCHANGED <<target, tokens, text, perr, mime, calls, html>>

\* SyntaxErrorStep that panics instead of returning the error
SyntaxErrorStep_Panics ==
    /\ pc \in {"find", "run"}
    /\ pos <= Len(tokens)
    /\ tokens[pos].t = "syntax"
    /\ pc' = "panic"
    /\ pos' = pos + 1
    /\ UNCHANGED <<target, tokens, stack, v, err, text, perr, mime, calls, html>>

\* the tokenizer reports input that is not well-formed: every call in
\* progress returns the error
SyntaxErrorStep ==
    /\ pc \in {"find", "run"}
    /\ pos <= Len(tokens)
    /\ tokens[pos].t = "syntax"
    /\ Fail(stack, SyntaxError)
    /\ UNCHANGED <<target, tokens, text, perr, mime, calls, html>>

----------------------------------------------------------------------------
(* One call of Unmarshal as a value: the decoder's state is local to the
   call (xml.Unmarshal makes a new Decoder over the caller's bytes and
   writes to the caller's value only) *)

\* the call xml.Unmarshal(toks, &x) with x a zero value of type T
Call(T, toks) ==
    [target |-> T, tokens |-> toks, pos |-> 1, stack |-> <<>>, v |-> Zero(T),
     err |-> NoError, pc |-> "find"]

\* the call returns e: what Fail does to the variables
Returned(c, stk, e) ==
    [c EXCEPT !.v = IF stk = <<>> THEN c.v ELSE Unwind(stk),
              !.err = e, !.pc = "done", !.stack = <<>>, !.pos = c.pos + 1]

\* the call goes on with the stack stk
Continued(c, stk) == [c EXCEPT !.stack = stk, !.pos = c.pos + 1]

\* WithInnerXML over the tokens of the call
InnerXMLOf(toks, fr, to) ==
    LET fs == TypeInfo(fr.type)
        ix == {i \in 1..Len(fs) : fs[i].mode = "innerxml"}
    IN  IF ix = {} THEN fr.val
        ELSE [fr.val EXCEPT ![fs[CHOOSE i \in ix : TRUE].go] =
                                RawRange(toks, fr.from + 1, to)]

\* UnmarshalStart, LeadingData and SyntaxErrorStep before the root element
StepFind(c) ==
    LET tok == c.tokens[c.pos]
        a == AssignAttrs(c.target, c.v, tok.attrs)
        fr == Frame("struct", c.target, a.val, "", "one", c.pos)
    IN  CASE tok.t = "text"  -> Continued(c, c.stack)
          [] tok.t = "start" ->
                IF tok.name # XMLName(c.target) THEN Returned(c, <<>>, UnmarshalError)
                ELSE IF ~a.ok THEN Returned(c, <<fr>>, NumError)
                ELSE [Continued(c, <<fr>>) EXCEPT !.pc = "run"]
          [] OTHER -> Returned(c, c.stack, SyntaxError)

\* StartElement
StepStart(c) ==
    LET tok == c.tokens[c.pos]
        top == c.stack[Len(c.stack)]
        S == c.stack[StructIdx(c.stack)]
        m == Match(S.type, Parents(c.stack), tok.name)
        skip == Frame("skip", "", <<>>, "", "", c.pos)
        push(fr) == Continued(c, Append(c.stack, fr))
    IN  IF top.k \in {"skip", "data"} \/ m.m = "none" THEN push(skip)
        ELSE IF m.m = "path" THEN push(Frame("path", "", m.parents, "", "", c.pos))
        ELSE IF m.f.kind # "struct"
             THEN push(Frame("data", m.f.kind, <<>>, m.f.go, m.f.rep, c.pos))
        ELSE LET init == InitialValue(S, m.f)
                 a == AssignAttrs(m.f.type, init, tok.attrs)
                 fr(x) == Frame("struct", m.f.type, x, m.f.go, m.f.rep, c.pos)
             IN  IF tok.name # XMLName(m.f.type)
                 THEN Returned(c, Append(c.stack, fr(init)), UnmarshalError)
                 ELSE IF ~a.ok THEN Returned(c, Append(c.stack, fr(a.val)), NumError)
                 ELSE push(fr(a.val))

\* CharData
StepData(c) ==
    LET top == c.stack[Len(c.stack)]
    IN  Continued(c, IF top.k = "data"
                     THEN [c.stack EXCEPT ![Len(c.stack)].val = @ \o c.tokens[c.pos].s]
                     ELSE c.stack)

\* EndElement
StepEnd(c) ==
    LET top == c.stack[Len(c.stack)]
        rest == SubSeq(c.stack, 1, Len(c.stack) - 1)
        cv == CopyValue(top.type, top.val)
        whole == InnerXMLOf(c.tokens, top, c.pos - 1)
    IN  CASE top.k = "struct" /\ rest = <<>> ->
                [Continued(c, <<>>) EXCEPT !.v = whole, !.err = NoError, !.pc = "done"]
          [] top.k = "struct" /\ rest # <<>> ->
                Continued(c, Commit(rest, top.field, top.how, whole))
          [] top.k = "data" ->
                IF cv.ok THEN Continued(c, Commit(rest, top.field, top.how, cv.v))
                ELSE Returned(c, rest, NumError)
          [] OTHER -> Continued(c, rest)

\* the next token of the call is read and handled
Step(c) ==
    LET tok == c.tokens[c.pos]
    IN  IF c.pc = "find" THEN StepFind(c)
        ELSE CASE tok.t = "start" -> StepStart(c)
               [] tok.t = "text"  -> StepData(c)
               [] tok.t = "end"   -> StepEnd(c)
               [] OTHER           -> Returned(c, c.stack, SyntaxError)

RECURSIVE Run(_)
\* the call runs until Unmarshal returns
Run(c) == IF c.pc = "done" \/ c.pos > Len(c.tokens) THEN c ELSE Run(Step(c))

\* xml.Unmarshal(toks, &x): the error returned and the value left in x
Unmarshal(T, toks) == Run(Call(T, toks))

----------------------------------------------------------------------------
(* Result.PrimaryText *)

NoPrimaryPods == "no primary pods"
NoSubpods == "no subpods in first primary pod"

\* PrimaryTextFrom that takes the first pod, primary or not
PrimaryTextFrom_IgnorePrimary(pods, i) ==
    IF i > Len(pods) THEN [text |-> <<>>, err |-> NoPrimaryPods]
    ELSE IF Len(pods[i].Subpods) = 0
         THEN [text |-> <<>>, err |-> NoSubpods]
         ELSE [text |-> pods[i].Subpods[1].Plaintext, err |-> NoError]

RECURSIVE PrimaryTextFrom_WrongError(_, _)
\* PrimaryTextFrom that reports the subpod error when the loop runs out
PrimaryTextFrom_WrongError(pods, i) ==
    IF i > Len(pods) THEN [text |-> <<>>, err |-> NoSubpods]
    ELSE IF pods[i].Primary
         THEN IF Len(pods[i].Subpods) = 0
              THEN [text |-> <<>>, err |-> NoSubpods]
              ELSE [text |-> pods[i].Subpods[1].Plaintext, err |-> NoError]
         ELSE PrimaryTextFrom_WrongError(pods, i + 1)

RECURSIVE PrimaryTextFrom_SkipEmpty(_, _)
\* PrimaryTextFrom that goes on to the next pod when a primary pod is empty
PrimaryTextFrom_SkipEmpty(pods, i) ==
    IF i > Len(pods) THEN [text |-> <<>>, err |-> NoPrimaryPods]
    ELSE IF pods[i].Primary /\ Len(pods[i].Subpods) > 0
         THEN [text |-> pods[i].Subpods[1].Plaintext, err |-> NoError]
         ELSE PrimaryTextFrom_SkipEmpty(pods, i + 1)

RECURSIVE PrimaryTextFrom_LastPrimary(_, _)
\* PrimaryTextFrom that lets a later primary pod override an earlier one
PrimaryTextFrom_LastPrimary(pods, i) ==
    IF i > Len(pods) THEN [text |-> <<>>, err |-> NoPrimaryPods]
    ELSE LET later == PrimaryTextFrom_LastPrimary(pods, i + 1)
         IN  IF later.err # NoPrimaryPods \/ ~pods[i].Primary THEN later
             ELSE IF Len(pods[i].Subpods) = 0
                  THEN [text |-> <<>>, err |-> NoSubpods]
                  ELSE [text |-> pods[i].Subpods[1].Plaintext, err |-> NoError]

RECURSIVE PrimaryTextFrom_TextWithError(_, _)
\* PrimaryTextFrom that hands back the pod title along with the subpod error
PrimaryTextFrom_TextWithError(pods, i) ==
    IF i > Len(pods) THEN [text |-> <<>>, err |-> NoPrimaryPods]
    ELSE IF pods[i].Primary
         THEN IF Len(pods[i].Subpods) = 0
              THEN [text |-> pods[i].Title, err |-> NoSubpods]
              ELSE [text |-> pods[i].Subpods[1].Plaintext, err |-> NoError]
         ELSE PrimaryTextFrom_TextWithError(pods, i + 1)

RECURSIVE PrimaryTextFrom_PrimarySubpod(_, _)
\* PrimaryTextFrom that prefers the first subpod marked primary to Subpods[0]
PrimaryTextFrom_PrimarySubpod(pods, i) ==
    IF i > Len(pods) THEN [text |-> <<>>, err |-> NoPrimaryPods]
    ELSE IF pods[i].Primary
         THEN IF Len(pods[i].Subpods) = 0
              THEN [text |-> <<>>, err |-> NoSubpods]
              ELSE LET marked == {j \in 1..Len(pods[i].Subpods) : pods[i].Subpods[j].Primary}
                       first == IF marked = {} THEN 1
                                ELSE CHOOSE j \in marked : \A k \in marked : j <= k
                   IN  [text |-> pods[i].Subpods[first].Plaintext, err |-> NoError]
         ELSE PrimaryTextFrom_PrimarySubpod(pods, i + 1)

RECURSIVE PrimaryTextFrom(_, _)
\* the loop over res.Pods from index i on
PrimaryTextFrom(pods, i) ==
    IF i > Len(pods) THEN [text |-> <<>>, err |-> NoPrimaryPods]
    ELSE IF pods[i].Primary
         THEN IF Len(pods[i].Subpods) = 0
              THEN [text |-> <<>>, err |-> NoSubpods]
              ELSE [text |-> pods[i].Subpods[1].Plaintext, err |-> NoError]
         ELSE PrimaryTextFrom(pods, i + 1)

PrimaryText(res) == PrimaryTextFrom(res.Pods, 1)

\* PrimaryTextCall that empties the pod list it has gone through
PrimaryTextCall_Consuming ==
    /\ pc = "done"
    /\ target = "Result"
    /\ text' = PrimaryText(v).text
    /\ perr' = PrimaryText(v).err
    /\ pc' = "queried"
    /\ v' = [v EXCEPT !.Pods = <<>>]
    /\ UNCHANGED <<target, tokens, pos, stack, err, mime, calls, html>>

\* the caller reads the primary text of the Result it unmarshalled into
PrimaryTextCall ==
    /\ pc = "done"
    /\ target = "Result"
    /\ text' = PrimaryText(v).text
    /\ perr' = PrimaryText(v).err
    /\ pc' = "queried"
    /\ UNCHANGED <<target, tokens, pos, stack, v, err, mime, calls, html>>

----------------------------------------------------------------------------
(* Image.Mime: net/url Parse and Query over the image URL.  The operators  *)
(* follow net/url for URLs without userinfo ("@"), IPv6 hosts ("[") and    *)
(* ";" in the query, which no input below contains.                         *)

Letters ==
    {"a", "b", "c", "d", "e", "f", "g", "h", "i", "j", "k", "l", "m",
     "n", "o", "p", "q", "r", "s", "t", "u", "v", "w", "x", "y", "z",
     "A", "B", "C", "D", "E", "F", "G", "H", "I", "J", "K", "L", "M",
     "N", "O", "P", "Q", "R", "S", "T", "U", "V", "W", "X", "Y", "Z"}

\* the characters 0x20..0x5f in order
AsciiLow ==
    << " ", "!", "\"", "#", "$", "%", "&", "'", "(", ")", "*", "+", ",", "-", ".", "/",
       "0", "1", "2", "3", "4", "5", "6", "7", "8", "9", ":", ";", "<", "=", ">", "?",
       "@", "A", "B", "C", "D", "E", "F", "G", "H", "I", "J", "K", "L", "M", "N", "O",
       "P", "Q", "R", "S", "T", "U", "V", "W", "X", "Y", "Z", "[", "\\", "]", "^", "_" >>

\* the characters 0x61..0x7e in order
AsciiHigh ==
    << "a", "b", "c", "d", "e", "f", "g", "h", "i", "j", "k", "l", "m", "n", "o", "p",
       "q", "r", "s", "t", "u", "v", "w", "x", "y", "z", "{", "|", "}", "~" >>

\* the character of byte n, for the printable bytes other than 0x60
Chr(n) == IF n < 96 THEN AsciiLow[n - 31] ELSE AsciiHigh[n - 96]

HexDigits == <<"0", "1", "2", "3", "4", "5", "6", "7", "8", "9", "a", "b", "c", "d", "e", "f">>

UpperHex == <<"0", "1", "2", "3", "4", "5", "6", "7", "8", "9", "A", "B", "C", "D", "E", "F">>

\* net/url ishex
IsHex(c) == \E i \in 1..16 : HexDigits[i] = c \/ UpperHex[i] = c

\* net/url unhex
Unhex(c) == (CHOOSE i \in 1..16 : HexDigits[i] = c \/ UpperHex[i] = c) - 1

\* strings.Cut(s, sep) for a separator sep of one character
Cut(s, sep) ==
    LET hits == {i \in 1..Len(s) : s[i] = sep}
        i == CHOOSE h \in hits : \A g \in hits : h <= g
    IN  IF hits = {} THEN [before |-> s, after |-> <<>>, found |-> FALSE]
        ELSE [before |-> SubSeq(s, 1, i - 1), after |-> SubSeq(s, i + 1, Len(s)),
              found |-> TRUE]

\* strings.HasPrefix
HasPrefix(s, p) == Len(p) <= Len(s) /\ SubSeq(s, 1, Len(p)) = p

\* every "%" of s starts an escape "%XX" with hexadecimal digits XX
EscapesValid(s) ==
    \A i \in 1..Len(s) :
        s[i] = "%" => i + 2 <= Len(s) /\ IsHex(s[i + 1]) /\ IsHex(s[i + 2])

RECURSIVE Unescaped(_, _)
\* the decoding loop of net/url unescape: "%XX" gives the byte XX and, when
\* plus is set (query components), "+" gives a space
Unescaped(s, plus) ==
    IF s = <<>> THEN <<>>
    ELSE IF Head(s) = "%"
         THEN <<Chr(16 * Unhex(s[2]) + Unhex(s[3]))>> \o Unescaped(SubSeq(s, 4, Len(s)), plus)
    ELSE IF Head(s) = "+" /\ plus THEN <<" ">> \o Unescaped(Tail(s), plus)
    ELSE <<Head(s)>> \o Unescaped(Tail(s), plus)

\* url.QueryUnescape
QueryUnescape(s) ==
    IF EscapesValid(s) THEN [ok |-> TRUE, s |-> Unescaped(s, TRUE)]
    ELSE [ok |-> FALSE, s |-> <<>>]

RECURSIVE GetSchemeFrom(_, _)
\* net/url getScheme, from character i on
GetSchemeFrom(s, i) ==
    LET none == [ok |-> TRUE, scheme |-> <<>>, rest |-> s]
    IN  IF i > Len(s) THEN none
        ELSE IF s[i] \in Letters THEN GetSchemeFrom(s, i + 1)
        ELSE IF IsDigit(s[i]) \/ s[i] \in {"+", "-", "."}
             THEN IF i = 1 THEN none ELSE GetSchemeFrom(s, i + 1)
        ELSE IF s[i] = ":"
             THEN IF i = 1 THEN [ok |-> FALSE, scheme |-> <<>>, rest |-> <<>>]
                  ELSE [ok |-> TRUE, scheme |-> SubSeq(s, 1, i - 1),
                        rest |-> SubSeq(s, i + 1, Len(s))]
        ELSE none

\* net/url shouldEscape(c, encodeHost): the characters a host may not hold
InvalidInHost(c) ==
    ~(c \in Letters \/ IsDigit(c)
        \/ c \in {"!", "$", "&", "'", "(", ")", "*", "+", ",", ";", "=", ":", "[", "]",
                  "<", ">", "\"", "-", "_", ".", "~", "%"})

\* net/url validOptionalPort of the text after the last ":" of the host
ValidPort(host) ==
    LET colons == {i \in 1..Len(host) : host[i] = ":"}
        last == CHOOSE i \in colons : \A j \in colons : j <= i
    IN  colons = {} \/ \A i \in (last + 1)..Len(host) : IsDigit(host[i])

\* net/url parseAuthority and parseHost succeed: a valid port, no character
\* a host may not hold, and of the escapes only "%25"
ValidHost(host) ==
    /\ ValidPort(host)
    /\ \A i \in 1..Len(host) : ~InvalidInHost(host[i])
    /\ \A i \in 1..Len(host) :
          host[i] = "%" => i + 2 <= Len(host) /\ host[i + 1] = "2" /\ host[i + 2] = "5"

\* net/url parse: whether the text before "#" parses, and its RawQuery
ParseURL(rawURL) ==
    LET failed == [ok |-> FALSE, RawQuery |-> <<>>]
        sch == GetSchemeFrom(rawURL, 1)
        marks == {i \in 1..Len(sch.rest) : sch.rest[i] = "?"}
        force == sch.rest # <<>> /\ sch.rest[Len(sch.rest)] = "?" /\ Cardinality(marks) = 1
        rest == IF force THEN SubSeq(sch.rest, 1, Len(sch.rest) - 1)
                ELSE Cut(sch.rest, "?").before
        query == IF force THEN <<>> ELSE Cut(sch.rest, "?").after
        authority == Cut(SubSeq(rest, 3, Len(rest)), "/").before
        hasAuthority ==
            /\ HasPrefix(rest, <<"/", "/">>)
            /\ (sch.scheme # <<>> \/ ~HasPrefix(rest, <<"/", "/", "/">>))
        path == IF hasAuthority
                THEN SubSeq(rest, 3 + Len(authority), Len(rest))
                ELSE rest
    IN  IF \E i \in 1..Len(rawURL) : rawURL[i] \in {"\n", "\t", "\r"} THEN failed
        ELSE IF rawURL = <<"*">> THEN [ok |-> TRUE, RawQuery |-> <<>>]
        ELSE IF ~sch.ok THEN failed
        ELSE IF ~HasPrefix(rest, <<"/">>) /\ sch.scheme # <<>>
             THEN [ok |-> TRUE, RawQuery |-> query]
        ELSE IF ~HasPrefix(rest, <<"/">>) /\ (\E i \in 1..Len(Cut(rest, "/").before) :
                                                  Cut(rest, "/").before[i] = ":")
             THEN failed
        ELSE IF hasAuthority /\ ~ValidHost(authority) THEN failed
        ELSE IF ~EscapesValid(path) THEN failed
        ELSE [ok |-> TRUE, RawQuery |-> query]

\* url.Parse: the fragment is cut off and must unescape
Parse(rawURL) ==
    LET c == Cut(rawURL, "#")
        u == ParseURL(c.before)
    IN  IF u.ok /\ ~EscapesValid(c.after) THEN [ok |-> FALSE, RawQuery |-> <<>>] ELSE u

RECURSIVE ParseQuery(_)
\* url.ParseQuery, its error dropped as URL.Query drops it: the key=value
\* pairs between "&", in order; a pair that does not unescape is left out
ParseQuery(query) ==
    IF query = <<>> THEN <<>>
    ELSE LET c == Cut(query, "&")
             kv == Cut(c.before, "=")
             key == QueryUnescape(kv.before)
             value == QueryUnescape(kv.after)
         IN  (IF c.before = <<>> \/ ~key.ok \/ ~value.ok THEN <<>>
              ELSE <<[key |-> key.s, value |-> value.s]>>)
               \o ParseQuery(c.after)

\* url.Values.Get: the first value of key, "" when there is none
Get(values, key) ==
    LET hits == {i \in 1..Len(values) : values[i].key = key}
    IN  IF hits = {} THEN <<>>
        ELSE values[CHOOSE i \in hits : \A j \in hits : i <= j].value

MSPStoreType == <<"M", "S", "P", "S", "t", "o", "r", "e", "T", "y", "p", "e">>

\* Mime as src/api/image.go has it: everything after "MSPStoreType="
Mime_AfterIndex(img) ==
    LET pat == MSPStoreType \o <<"=">>
        hits == {i \in 1..(Len(img.URL) - Len(pat) + 1) :
                    SubSeq(img.URL, i, i + Len(pat) - 1) = pat}
        i == CHOOSE h \in hits : \A g \in hits : h <= g
    IN  IF hits = {} THEN <<>> ELSE SubSeq(img.URL, i + Len(pat), Len(img.URL))

\* Image.Mime
Mime(img) ==
    LET u == Parse(img.URL)
    IN  IF ~u.ok THEN <<>> ELSE Get(ParseQuery(u.RawQuery), MSPStoreType)

\* the caller asks the Image it unmarshalled into for its MIME type
MimeCall ==
    /\ pc = "done"
    /\ target = "Image"
    /\ mime' = Mime(v)
    /\ pc' = "asked"
    /\ UNCHANGED <<target, tokens, pos, stack, v, err, text, perr, calls, html>>

----------------------------------------------------------------------------
(* Image.HTML: xml.Marshal of the Image, with "></img>" replaced by "/>",  *)
(* and the tokens encoding/xml reads back from such a snippet.             *)

\* U+FFFD, which Marshal writes in place of a character XML does not allow
\* (one rune, named here by its code point)
ReplacementChar == "U+FFFD"

\* encoding/xml isInCharacterRange, over tab, newline, carriage return, form
\* feed, the printable ASCII characters and U+FFFD
InCharacterRange(c) ==
    \/ c \in {"\t", "\n", "\r", ReplacementChar}
    \/ \E n \in 32..126 : n # 96 /\ Chr(n) = c

\* encoding/xml escapeText with escapeNewline set, for one character
EscapeChar(c) ==
    CASE c = "\"" -> <<"&", "#", "3", "4", ";">>
      [] c = "'"  -> <<"&", "#", "3", "9", ";">>
      [] c = "&"  -> <<"&", "a", "m", "p", ";">>
      [] c = "<"  -> <<"&", "l", "t", ";">>
      [] c = ">"  -> <<"&", "g", "t", ";">>
      [] c = "\t" -> <<"&", "#", "x", "9", ";">>
      [] c = "\n" -> <<"&", "#", "x", "A", ";">>
      [] c = "\r" -> <<"&", "#", "x", "D", ";">>
      [] OTHER    -> IF InCharacterRange(c) THEN <<c>> ELSE <<ReplacementChar>>

RECURSIVE EscapeString(_)
\* printer.EscapeString
EscapeString(s) == IF s = <<>> THEN <<>> ELSE EscapeChar(Head(s)) \o EscapeString(Tail(s))

RECURSIVE FormatUint(_)
FormatUint(n) ==
    IF n < 10 THEN <<Digits[n + 1]>> ELSE FormatUint(n \div 10) \o <<Digits[(n % 10) + 1]>>

\* strconv.FormatInt(n, 10)
FormatInt(n) == IF n < 0 THEN <<"-">> \o FormatUint(0 - n) ELSE FormatUint(n)

\* the spelling of the XML names of <img>
Spell(name) ==
    CASE name = "img"    -> <<"i", "m", "g">>
      [] name = "src"    -> <<"s", "r", "c">>
      [] name = "alt"    -> <<"a", "l", "t">>
      [] name = "title"  -> <<"t", "i", "t", "l", "e">>
      [] name = "width"  -> <<"w", "i", "d", "t", "h">>
      [] name = "height" -> <<"h", "e", "i", "g", "h", "t">>

ImgNames == {"img", "src", "alt", "title", "width", "height"}

\* a space, the name, and the text s between double quotes
QuotedAttr(name, s) == <<" ">> \o Spell(name) \o <<"=", "\"">> \o s \o <<"\"">>

\* one attribute as Marshal writes it: its value escaped
MarshalAttr(name, value) == QuotedAttr(name, EscapeString(value))

\* the attribute of an int field tagged omitempty: nothing for 0
MarshalInt(name, n) == IF n = 0 THEN <<>> ELSE MarshalAttr(name, FormatInt(n))

\* xml.Marshal(&img): the start tag with the fields' attributes in the
\* order of the struct, and the end tag
Marshal(img) ==
    <<"<">> \o Spell("img")
      \o MarshalAttr("src", img.URL)
      \o MarshalAttr("alt", img.Alt)
      \o MarshalAttr("title", img.Title)
      \o MarshalInt("width", img.Width)
      \o MarshalInt("height", img.Height)
      \o <<">", "<", "/">> \o Spell("img") \o <<">">>

\* strings.Index
Index(s, sub) ==
    LET hits == {i \in 1..(Len(s) - Len(sub) + 1) : SubSeq(s, i, i + Len(sub) - 1) = sub}
    IN  IF hits = {} THEN 0 ELSE CHOOSE i \in hits : \A j \in hits : i <= j

\* strings.Replace(s, old, new, 1)
ReplaceOnce(s, old, new) ==
    LET i == Index(s, old)
    IN  IF i = 0 THEN s
        ELSE SubSeq(s, 1, i - 1) \o new \o SubSeq(s, i + Len(old), Len(s))

\* Image.HTML of the earlier revisions: fmt.Sprintf with %s and %d
HTML_Sprintf(img) ==
    <<"<">> \o Spell("img")
      \o QuotedAttr("src", img.URL)
      \o QuotedAttr("alt", img.Alt)
      \o QuotedAttr("title", img.Title)
      \o QuotedAttr("width", FormatInt(img.Width))
      \o QuotedAttr("height", FormatInt(img.Height))
      \o <<"/", ">">>

\* Image.HTML (Marshal returns no error for an Image, so the panic is not
\* reached)
HTML(img) ==
    ReplaceOnce(Marshal(img), <<">", "<", "/">> \o Spell("img") \o <<">">>, <<"/", ">">>)

\* the caller asks for the HTML snippet of the Image
HTMLCall ==
    /\ pc = "done"
    /\ target = "Image"
    /\ html' = HTML(v)
    /\ pc' = "drawn"
    /\ UNCHANGED <<target, tokens, pos, stack, v, err, text, perr, mime, calls>>

(* Reading a snippet: the Decoder's rawToken over one element without      *)
(* content, with double- or single-quoted attributes.                      *)

\* encoding/xml isNameByte
IsNameByte(c) == c \in Letters \/ IsDigit(c) \/ c \in {"_", ":", ".", "-"}

RECURSIVE NameEnd(_, _)
\* the index after the name that starts at r[i]
NameEnd(r, i) == IF i <= Len(r) /\ IsNameByte(r[i]) THEN NameEnd(r, i + 1) ELSE i

RECURSIVE SkipSpace(_, _)
\* Decoder.space
SkipSpace(r, i) == IF i <= Len(r) /\ IsSpace(r[i]) THEN SkipSpace(r, i + 1) ELSE i

\* the name a spelling stands for; "?" for a name <img> does not use
NameOf(s) ==
    IF \E n \in ImgNames : Spell(n) = s THEN CHOOSE n \in ImgNames : Spell(n) = s ELSE "?"

RECURSIVE HexVal(_)
HexVal(s) == IF s = <<>> THEN 0 ELSE 16 * HexVal(SubSeq(s, 1, Len(s) - 1)) + Unhex(s[Len(s)])

\* string(rune(n)) for the code points of the characters modelled
Rune(n) ==
    CASE n = 9  -> "\t"
      [] n = 10 -> "\n"
      [] n = 12 -> "\f"
      [] n = 13 -> "\r"
      [] n \in 32..126 /\ n # 96 -> Chr(n)

\* the character an entity stands for, its text being r[i..] after the "&":
\* a decimal or hexadecimal character reference, or one of the five names
Entity(r, i) ==
    LET semis == {j \in i..Len(r) : r[j] = ";"}
        semi == CHOOSE j \in semis : \A k \in semis : j <= k
        body == SubSeq(r, i, semi - 1)
        no == [ok |-> FALSE, c |-> "", next |-> i]
        yes(c) == [ok |-> TRUE, c |-> c, next |-> semi + 1]
    IN  IF semis = {} \/ body = <<>> THEN no
        ELSE IF body[1] = "#"
        THEN IF Len(body) > 2 /\ body[2] = "x"
             THEN IF \A k \in 3..Len(body) : IsHex(body[k])
                  THEN yes(Rune(HexVal(SubSeq(body, 3, Len(body))))) ELSE no
             ELSE IF AllDigits(Tail(body)) THEN yes(Rune(DigitsVal(Tail(body)))) ELSE no
        ELSE CASE body = <<"l", "t">>                -> yes("<")
               [] body = <<"g", "t">>                -> yes(">")
               [] body = <<"a", "m", "p">>           -> yes("&")
               [] body = <<"a", "p", "o", "s">>      -> yes("'")
               [] body = <<"q", "u", "o", "t">>      -> yes("\"")
               [] OTHER                              -> no

RECURSIVE QuotedText(_, _, _, _)
\* Decoder.text inside a quoted attribute value that started before r[i]:
\* up to the closing quote q, with entities replaced and \r, \r\n rewritten
\* to \n; "<", a bad entity, a character XML does not allow and the end of
\* input are syntax errors
QuotedText(r, i, q, acc) ==
    IF i > Len(r) THEN [ok |-> FALSE, v |-> <<>>, next |-> i]
    ELSE IF r[i] = q
    THEN [ok |-> \A k \in 1..Len(acc) : InCharacterRange(acc[k]), v |-> acc, next |-> i + 1]
    ELSE IF r[i] = "<" THEN [ok |-> FALSE, v |-> <<>>, next |-> i]
    ELSE IF r[i] = "&"
    THEN LET e == Entity(r, i + 1)
         IN  IF e.ok THEN QuotedText(r, e.next, q, Append(acc, e.c))
             ELSE [ok |-> FALSE, v |-> <<>>, next |-> i]
    ELSE IF r[i] = "\r"
    THEN QuotedText(r, IF i < Len(r) /\ r[i + 1] = "\n" THEN i + 2 ELSE i + 1, q,
                    Append(acc, "\n"))
    ELSE QuotedText(r, i + 1, q, Append(acc, r[i]))

RECURSIVE TagAttrs(_, _, _)
\* the attribute loop of rawToken from r[i] on: ok with the attributes and
\* whether the tag ended in "/>", or a syntax error
TagAttrs(r, i, acc) ==
    LET j == SkipSpace(r, i)
        no == [ok |-> FALSE, attrs |-> acc, empty |-> FALSE, next |-> j]
    IN  IF j > Len(r) THEN no
        ELSE IF r[j] = "/"
        THEN IF j < Len(r) /\ r[j + 1] = ">"
             THEN [ok |-> TRUE, attrs |-> acc, empty |-> TRUE, next |-> j + 2] ELSE no
        ELSE IF r[j] = ">"
        THEN [ok |-> TRUE, attrs |-> acc, empty |-> FALSE, next |-> j + 1]
        ELSE LET k == NameEnd(r, j)
                 eq == SkipSpace(r, k)
                 qt == SkipSpace(r, eq + 1)
                 val == QuotedText(r, qt + 1, r[qt], <<>>)
             IN  IF k = j \/ eq > Len(r) \/ r[eq] # "=" THEN no
                 ELSE IF qt > Len(r) \/ r[qt] \notin {"\"", "'"} THEN no
                 ELSE IF ~val.ok THEN no
                 ELSE TagAttrs(r, val.next, Append(acc, A(NameOf(SubSeq(r, j, k - 1)), val.v)))

\* the tokens the Decoder reads from r, a snippet of one element: its start
\* and end, or what was read before the syntax error
Tokenize(r) ==
    IF r = <<>> \/ r[1] # "<" THEN <<SyntaxTok>>
    ELSE LET k == NameEnd(r, 2)
             name == NameOf(SubSeq(r, 2, k - 1))
             tag == TagAttrs(r, k, <<>>)
             close == <<"<", "/">> \o SubSeq(r, 2, k - 1)
             rest == SubSeq(r, tag.next, Len(r))
         IN  IF k = 2 \/ ~tag.ok THEN <<SyntaxTok>>
             ELSE IF tag.empty THEN <<StartTok(name, tag.attrs), EndTok(name)>>
             ELSE IF HasPrefix(rest, close)
                       /\ SkipSpace(rest, Len(close) + 1) <= Len(rest)
                       /\ rest[SkipSpace(rest, Len(close) + 1)] = ">"
             THEN <<StartTok(name, tag.attrs), EndTok(name)>>
             ELSE <<StartTok(name, tag.attrs), SyntaxTok>>

\* the caller unmarshals the snippet into a new Image
SnippetUnmarshal ==
    /\ pc = "drawn"
    /\ calls' = <<Unmarshal("Image", Tokenize(html))>>
    /\ pc' = "reread"
    /\ UNCHANGED <<target, tokens, pos, stack, v, err, text, perr, mime, html>>

----------------------------------------------------------------------------
(* The input documents *)

sTrue == <<"t", "r", "u", "e">>
sFalse == <<"f", "a", "l", "s", "e">>
sMaybe == <<"m", "a", "y", "b", "e">>
sHigh == <<"h", "i", "g", "h">>
sSpace == <<"\n", " ">>

\* a label made of a letter and indices
Label(c, i, j) == <<c, Digits[i + 1], Digits[j + 1]>>

Seqs(S, n) == UNION {[1..k -> S] : k \in 0..n}

RECURSIVE Concat(_)
Concat(ss) == IF ss = <<>> THEN <<>> ELSE Head(ss) \o Concat(Tail(ss))

RECURSIVE Join(_, _)
\* strings.Join
Join(ss, sep) ==
    IF ss = <<>> THEN <<>>
    ELSE IF Len(ss) = 1 THEN ss[1]
    ELSE ss[1] \o sep \o Join(Tail(ss), sep)

Root(attrs, kids) == El("queryresult", attrs, kids)

\* <subpod title=""><plaintext>txt</plaintext></subpod>
SubpodEl(txt) ==
    El("subpod", <<A("title", <<>>)>>, El("plaintext", <<>>, <<TextTok(txt)>>))

\* pod i of a document: primary is "none" (no attribute), "true" or "false"
PodEl(i, shape) ==
    El("pod",
       <<A("title", Label("t", i, 0)), A("numsubpods", <<Digits[shape.subs + 1]>>)>>
         \o (IF shape.primary = "none" THEN <<>>
             ELSE <<A("primary", IF shape.primary = "true" THEN sTrue ELSE sFalse)>>),
       Concat([j \in 1..shape.subs |-> SubpodEl(Label("p", i, j))]))

PodShapes == [primary : {"none", "true", "false"}, subs : 0..MaxSubpods]

\* results with up to MaxPods pods, each with up to MaxSubpods subpods
PodDocs ==
    {[target |-> "Result",
      tokens |-> Root(<<A("success", sTrue)>>,
                      Concat([i \in 1..Len(ps) |-> PodEl(i, ps[i])]))] :
        ps \in Seqs(PodShapes, MaxPods)}

\* an optional child of <queryresult>: absent, empty or with its content
OptionalEl(name, how) ==
    CASE how = "absent" -> <<>>
      [] how = "empty"  -> El(name, <<>>, <<>>)
      [] how = "full" /\ name = "error" ->
            El(name, <<>>, <<TextTok(sSpace)>>
                             \o El("code", <<>>, <<TextTok(<<"2">>)>>)
                             \o El("msg", <<>>, <<TextTok(<<"m">>)>>))
      [] how = "full" /\ name = "examplepage" ->
            El(name, <<A("category", <<"c">>), A("url", <<"u">>)>>, <<>>)
      [] how = "full" /\ name = "futuretopic" ->
            El(name, <<A("topic", <<"o">>), A("msg", <<"g">>)>>, <<>>)
      [] how = "full" /\ name = "languagemsg" ->
            El(name, <<A("english", <<"e">>), A("other", <<"d">>)>>, <<>>)
      [] how = "full" /\ name = "reinterpret" ->
            El(name, <<A("text", <<"x">>), A("new", <<"n">>),
                       A("score", <<"0", ".", "5">>), A("level", sHigh)>>,
               El("alternative", <<A("score", <<"0", ".", "3">>)>>, <<TextTok(<<"b">>)>>))

Presence == {"absent", "empty", "full"}

OptionalNames == <<"error", "examplepage", "futuretopic", "languagemsg", "reinterpret">>

\* results with every combination of the optional children
OptionalDocs ==
    {[target |-> "Result",
      tokens |-> Root(<<A("success", sFalse), A("error", sTrue)>>,
                      Concat([i \in 1..Len(OptionalNames) |->
                                 OptionalEl(OptionalNames[i], h[i])]))] :
        h \in [1..Len(OptionalNames) -> Presence]}

ImgEl(how, width) ==
    CASE how = "absent" -> <<>>
      [] how = "empty"  -> El("img", <<>>, <<>>)
      [] how = "full"   ->
            El("img", <<A("src", <<"u">>), A("alt", <<"a">>), A("title", <<"a">>),
                        A("width", width), A("height", <<"1", "8">>)>>, <<>>)

MathMLEl(how) ==
    CASE how = "absent" -> <<>>
      [] how = "empty"  -> El("mathml", <<>>, <<>>)
      [] how = "full"   -> El("mathml", <<>>, El("math", <<>>, <<TextTok(<<"4">>)>>))

\* <subpod> fragments with every combination of <img> and <mathml>
SubpodDocs ==
    {[target |-> "Subpod",
      tokens |-> El("subpod", <<A("title", <<"s">>), A("primary", sTrue)>>,
                    El("plaintext", <<>>, <<TextTok(<<"d">>)>>)
                      \o ImgEl(i, <<"3", "6">>)
                      \o El("minput", <<>>, <<TextTok(<<"i">>)>>)
                      \o MathMLEl(m))] :
        i \in Presence, m \in Presence}

Validity == {"valid", "malformed"}

Pick(how, good, bad) == IF how = "valid" THEN good ELSE bad

\* a result in which each of five numeric or boolean values is either valid
\* or malformed: pod position, pod primary, img width, reinterpret score,
\* error code
CoercionDoc(h) ==
    Root(<<A("success", sTrue), A("id", <<"q">>)>>,
         El("pod", <<A("title", <<"t">>),
                     A("position", Pick(h.position, <<"1", "0", "0">>, <<"a", "b", "c">>)),
                     A("id", <<"i">>),
                     A("primary", Pick(h.primary, sTrue, sMaybe)),
                     A("scanner", <<"s">>)>>,
            El("subpod", <<A("title", <<>>)>>,
               ImgEl("full", Pick(h.width, <<"3", "6">>, <<"x">>))
                 \o El("plaintext", <<>>, <<TextTok(<<"d">>)>>)))
           \o El("reinterpret",
                 <<A("score", Pick(h.score, <<"0", ".", "5", "0">>, sHigh)),
                   A("new", <<"n">>)>>, <<>>)
           \o El("error", <<>>,
                 El("code", <<>>, <<TextTok(Pick(h.code, <<" ", "2">>, <<"x">>))>>)
                   \o El("msg", <<>>, <<TextTok(<<"m">>)>>))
           \o El("source", <<A("url", <<"u">>), A("text", <<"c">>)>>, <<>>))

CoercionChoices ==
    [position : Validity, primary : Validity, width : Validity, score : Validity,
     code : Validity]

CoercionDocs == {[target |-> "Result", tokens |-> CoercionDoc(h)] : h \in CoercionChoices}

KidKinds == {"didyoumean", "tips", "source", "assumption", "pod"}

\* the k-th repeated child of a list document, labelled by k
KidEl(k, kind) ==
    CASE kind = "didyoumean" ->
            El("didyoumean", <<A("score", <<"0", ".", "3">>)>>, <<TextTok(Label("d", k, 0))>>)
      [] kind = "tips" ->
            El("tips", <<A("count", <<"2">>)>>,
               El("tip", <<A("text", Label("i", k, 1))>>, <<>>)
                 \o <<TextTok(sSpace)>>
                 \o El("tip", <<A("text", Label("i", k, 2))>>, <<>>))
      [] kind = "source" ->
            El("source", <<A("url", Label("u", k, 0)), A("text", Label("s", k, 0))>>, <<>>)
      [] kind = "assumption" ->
            El("assumption", <<A("type", Label("a", k, 0)), A("count", <<"1">>)>>,
               El("value", <<A("name", Label("v", k, 0))>>, <<>>))
      [] kind = "pod" ->
            El("pod", <<A("title", Label("t", k, 0))>>, SubpodEl(Label("p", k, 1)))

\* results whose children are up to MaxKids repeated elements in any order
ListDocs ==
    {[target |-> "Result",
      tokens |-> Root(<<A("success", sTrue)>>,
                      Concat([k \in 1..Len(ks) |-> KidEl(k, ks[k])]))] :
        ks \in Seqs(KidKinds, MaxKids)}

ValueKinds == {"N", "C"}

ValueEl(k) ==
    <<TextTok(sSpace)>>
      \o El("value", <<A("name", <<k>>), A("desc", <<k, "d">>), A("input", <<k, "i">>)>>, <<>>)

\* <assumption> fragments with up to MaxValues <value> children
AssumptionDocs ==
    {[target |-> "Assumption",
      tokens |-> El("assumption",
                    <<A("type", <<"c">>), A("word", <<"p", "i">>),
                      A("count", <<Digits[Len(ks) + 1]>>)>>,
                    Concat([i \in 1..Len(ks) |-> ValueEl(ks[i])]))] :
        ks \in Seqs(ValueKinds, MaxValues)}

PodIDs == {<<"P", "1">>, <<"Q", "2", "2">>}

\* results whose timedout attribute lists up to MaxTimedOut pod IDs
TimedOutDocs ==
    {[target |-> "Result",
      tokens |-> Root(<<A("success", sTrue), A("timedout", Join(ids, <<",">>)),
                        A("version", <<"2">>)>>, <<>>)] :
        ids \in Seqs(PodIDs, MaxTimedOut)}

\* the <pod> of TestPod (src/api/elements_test.go:128-137), abridged
TestPodDoc ==
    [target |-> "Pod",
     tokens |-> <<TextTok(sSpace)>>
                  \o El("pod", <<A("title", <<"I">>), A("scanner", <<"s">>), A("id", <<"i">>),
                                 A("position", <<"1", "0", "0">>), A("error", sFalse),
                                 A("numsubpods", <<"1">>)>>,
                        <<TextTok(sSpace)>> \o SubpodEl(<<"c">>) \o <<TextTok(sSpace)>>)]

FullDoc ==
    [target |-> "Result",
     tokens |-> Root(<<A("success", sTrue), A("id", <<"q">>)>>,
                     PodEl(1, [primary |-> "true", subs |-> 1])
                       \o El("pod", <<A("title", <<"g">>)>>,
                             El("subpod", <<>>, ImgEl("full", <<"3", "6">>) \o MathMLEl("full")))
                       \o OptionalEl("reinterpret", "full")
                       \o OptionalEl("error", "full")
                       \o KidEl(3, "tips")
                       \o KidEl(4, "didyoumean"))]

Variants == 1..2

\* the numeral 16, 26, ... of variant k
Numeral(k) == <<Digits[k + 1], "6">>

Types ==
    {"Assumption", "AssumptionValue", "Error", "ExamplePage", "FutureTopic", "Image",
     "LanguageMessage", "MathML", "Pod", "Reinterpretation", "Result", "Source",
     "Subpod", "Tip"}

RECURSIVE FullEl(_, _)
\* the element of struct T with all of its attributes and children, after
\* the fragments of src/api/elements_test.go; k varies the values
FullEl(T, k) ==
    LET sp == <<TextTok(sSpace)>>
        txt(name, c) == El(name, <<>>, <<TextTok(Label(c, k, 0))>>)
    IN
    CASE T = "Assumption" ->
            El("assumption",
               <<A("type", Label("y", k, 0)), A("word", Label("w", k, 0)),
                 A("template", Label("e", k, 0)), A("count", <<"2">>)>>,
               sp \o FullEl("AssumptionValue", k) \o sp \o FullEl("AssumptionValue", k + 1)
                  \o sp)
      [] T = "AssumptionValue" ->
            El("value", <<A("name", Label("n", k, 0)), A("desc", Label("d", k, 0)),
                          A("input", Label("i", k, 0))>>, <<>>)
      [] T = "Error" ->
            El("error", <<>>,
               sp \o El("code", <<>>, <<TextTok(Numeral(k))>>) \o sp \o txt("msg", "m") \o sp)
      [] T = "ExamplePage" ->
            El("examplepage", <<A("category", Label("c", k, 0)), A("url", Label("u", k, 0))>>,
               <<>>)
      [] T = "FutureTopic" ->
            El("futuretopic", <<A("topic", Label("o", k, 0)), A("msg", Label("m", k, 0))>>,
               <<>>)
      [] T = "Image" ->
            El("img", <<A("src", Label("u", k, 0)), A("alt", Label("a", k, 0)),
                        A("title", Label("t", k, 0)), A("width", Numeral(k)),
                        A("height", Numeral(k + 1))>>, <<>>)
      [] T = "LanguageMessage" ->
            El("languagemsg", <<A("english", Label("e", k, 0)), A("other", Label("o", k, 0))>>,
               <<>>)
      [] T = "MathML" ->
            El("mathml", <<>>, El("math", <<>>, <<TextTok(Label("x", k, 0))>>))
      [] T = "Pod" ->
            El("pod", <<A("title", Label("t", k, 0)), A("scanner", Label("s", k, 0)),
                        A("id", Label("i", k, 0)), A("position", Numeral(k) \o <<"0">>),
                        A("error", sTrue), A("primary", sTrue), A("numsubpods", <<"2">>)>>,
               sp \o FullEl("Subpod", k) \o sp \o FullEl("Subpod", k + 1) \o sp)
      [] T = "Reinterpretation" ->
            El("reinterpret", <<A("text", Label("x", k, 0)), A("new", Label("n", k, 0)),
                                A("score", <<"0", ".", Digits[k + 1]>>), A("level", sHigh)>>,
               <<>>)
      [] T = "Result" ->
            Root(<<A("id", Label("q", k, 0)), A("success", sTrue), A("error", sTrue),
                   A("recalculate", Label("r", k, 0)), A("datatypes", Label("d", k, 0)),
                   A("parsetiming", <<Digits[k + 1], ".", "2", "5">>),
                   A("parsetimedout", sTrue), A("timing", <<"0", ".", Digits[k + 1]>>),
                   A("timedout", Label("P", k, 0) \o <<",">> \o Label("Q", k, 0)),
                   A("version", <<"2", ".", "6">>)>>,
                 sp \o FullEl("Pod", k) \o sp \o FullEl("Assumption", k)
                    \o FullEl("ExamplePage", k) \o FullEl("FutureTopic", k)
                    \o FullEl("LanguageMessage", k) \o sp \o FullEl("Reinterpretation", k)
                    \o txt("didyoumean", "g") \o txt("didyoumean", "h")
                    \o El("tips", <<A("count", <<"2">>)>>,
                          sp \o FullEl("Tip", k) \o sp \o FullEl("Tip", k + 1) \o sp)
                    \o FullEl("Source", k) \o FullEl("Source", k + 1)
                    \o FullEl("Error", k) \o sp)
      [] T = "Source" ->
            El("source", <<A("url", Label("u", k, 0)), A("text", Label("s", k, 0))>>, <<>>)
      [] T = "Subpod" ->
            El("subpod", <<A("title", Label("t", k, 0)), A("primary", sTrue)>>,
               sp \o txt("plaintext", "p") \o sp \o FullEl("Image", k) \o sp
                  \o txt("minput", "i") \o sp \o txt("moutput", "o") \o sp
                  \o FullEl("MathML", k) \o sp)
      [] T = "Tip" ->
            El("tip", <<A("text", Label("x", k, 0))>>, <<>>)

\* one fragment per struct and variant, unmarshalled into that struct
FragmentDocs == {[target |-> T, tokens |-> FullEl(T, k)] : T \in Types, k \in Variants}

\* base-10 numerals with the integers they denote
IntLiterals ==
    {[s |-> <<"0">>, n |-> 0], [s |-> <<"2">>, n |-> 2], [s |-> <<"3", "6">>, n |-> 36],
     [s |-> <<"1", "0", "0">>, n |-> 100], [s |-> <<"0", "1", "8">>, n |-> 18],
     [s |-> <<"-", "5">>, n |-> 0 - 5]}

BoolLiterals == {[s |-> sTrue, b |-> TRUE], [s |-> sFalse, b |-> FALSE]}

\* a result whose boolean attributes carry the literals of b and whose
\* integer attributes and <code> carry the numerals i and j
ValueDoc(b, i, j) ==
    Root(<<A("success", b.success), A("error", b.error),
           A("parsetimedout", b.parsetimedout)>>,
         El("pod", <<A("title", <<"t">>), A("position", i), A("primary", b.primary)>>,
            El("subpod", <<A("title", <<>>)>>,
               El("img", <<A("src", <<"u">>), A("width", j), A("height", i)>>, <<>>)))
           \o El("error", <<>>,
                 El("code", <<>>, <<TextTok(j)>>)
                   \o El("msg", <<>>, <<TextTok(<<"m">>)>>)))

\* every combination of the boolean literals with fixed numerals, and every
\* pair of numerals with fixed boolean literals
ValueDocs ==
    {[target |-> "Result", tokens |-> ValueDoc(b, <<"2">>, <<"3", "6">>)] :
        b \in [success : {sTrue, sFalse}, error : {sTrue, sFalse},
               parsetimedout : {sTrue, sFalse}, primary : {sTrue, sFalse}]}
      \cup
    {[target |-> "Result",
      tokens |-> ValueDoc([success |-> sTrue, error |-> sFalse, parsetimedout |-> sFalse,
                           primary |-> sTrue], i.s, j.s)] :
        i \in IntLiterals, j \in IntLiterals}

AppidMissing == <<"A", "p", "p", "i", "d", " ", "m", "i", "s", "s", "i", "n", "g">>

\* the <error> of TestError (src/api/elements_test.go:48-51)
TestErrorDoc ==
    [target |-> "Error",
     tokens |-> El("error", <<>>,
                   <<TextTok(sSpace)>> \o El("code", <<>>, <<TextTok(<<"2">>)>>)
                     \o <<TextTok(sSpace)>> \o El("msg", <<>>, <<TextTok(AppidMissing)>>)
                     \o <<TextTok(sSpace)>>)]

ImageGif == <<"i", "m", "a", "g", "e", "/", "g", "i", "f">>

\* the URL of TestImage (src/api/elements_test.go:72), its host shortened
TestImageURL ==
    <<"h", "t", "t", "p", ":", "/", "/", "x", "/", "5", "3", "?">> \o MSPStoreType \o <<"=">>
      \o ImageGif

ImagePng == <<"i", "m", "a", "g", "e", "/", "p", "n", "g">>

\* the text before "?" of an image URL, and whether url.Parse accepts it:
\* not a missing scheme, a colon in the first segment of a relative path, a
\* space in the host, a port that is no number or a broken escape
URLBases ==
    {[s |-> <<"h", "t", "t", "p", ":", "/", "/", "x", "/", "5", "3">>, ok |-> TRUE],
     [s |-> <<"/", "5", "3">>, ok |-> TRUE],
     [s |-> <<"H", "T", "T", "P", ":", "/", "/", "x", ".", "y", ":", "8", "0", "/", "5", "%", "2", "F", "3">>, ok |-> TRUE],
     [s |-> <<"x", ":", "5", "3">>, ok |-> TRUE],
     [s |-> <<":", "5", "3">>, ok |-> FALSE],
     [s |-> <<"5", ":", "3", "/", "x">>, ok |-> FALSE],
     [s |-> <<"h", "t", "t", "p", ":", "/", "/", "x", " ", "y", "/", "5", "3">>, ok |-> FALSE],
     [s |-> <<"h", "t", "t", "p", ":", "/", "/", "x", ":", "y", "/", "5", "3">>, ok |-> FALSE],
     [s |-> <<"/", "5", "%">>, ok |-> FALSE]}

\* what stands between two "&" of the query, with the parameter it denotes
\* (key "" for the empty text, which denotes none)
URLParams ==
    {[raw |-> MSPStoreType \o <<"=">> \o ImageGif, key |-> MSPStoreType, value |-> ImageGif],
     [raw |-> MSPStoreType \o <<"=", "i", "m", "a", "g", "e", "%", "2", "F", "p", "n", "g">>, key |-> MSPStoreType, value |-> ImagePng],
     [raw |-> <<"s", "=", "1", "6">>, key |-> <<"s">>, value |-> <<"1", "6">>],
     [raw |-> <<"x">> \o MSPStoreType \o <<"=", "a">>, key |-> <<"x">> \o MSPStoreType,
      value |-> <<"a">>],
     [raw |-> <<>>, key |-> <<>>, value |-> <<>>]}

\* what follows the query: nothing, a fragment, or a fragment with a broken
\* escape, which url.Parse rejects
URLFragments ==
    {[s |-> <<>>, ok |-> TRUE],
     [s |-> <<"#">> \o MSPStoreType \o <<"=", "f">>, ok |-> TRUE],
     [s |-> <<"#", "%">>, ok |-> FALSE]}

\* every base and fragment with at most one parameter, and the URL of the
\* tests with up to MaxParams parameters
URLSpecs ==
    [base : URLBases, params : Seqs(URLParams, 1), frag : URLFragments]
      \cup [base : {b \in URLBases : b.s = SubSeq(TestImageURL, 1, Len(b.s)) /\ b.ok},
            params : Seqs(URLParams, MaxParams),
            frag : {f \in URLFragments : f.s = <<>>}]

\* the URL as written
URLText(u) ==
    u.base.s
      \o (IF u.params = <<>> THEN <<>>
          ELSE <<"?">> \o Join([i \in 1..Len(u.params) |-> u.params[i].raw], <<"&">>))
      \o u.frag.s

\* <img> fragments with each of the URLs
ImageDocs ==
    {[target |-> "Image",
      tokens |-> El("img", <<A("src", URLText(u)), A("alt", <<"a">>)>>, <<>>)] :
        u \in URLSpecs}

\* results that say success="false" and yet carry pods
FailedDocs ==
    {[target |-> "Result",
      tokens |-> Root(<<A("success", sFalse)>>,
                      Concat([i \in 1..Len(ps) |-> PodEl(i, ps[i])]))] :
        ps \in Seqs({[primary |-> "true", subs |-> 1], [primary |-> "none", subs |-> 1]}, 2)}

UnknownPlaces == {"result", "pod", "subpod", "plaintext"}

UnknownContents == {"empty", "text", "pod"}

\* an element the structs have no field for, around nothing, around text
\* or around an element they do have a field for
AlternativeEl(what) ==
    El("alternative", <<A("score", <<"0", ".", "3">>)>>,
       CASE what = "empty" -> <<>>
         [] what = "text"  -> <<TextTok(<<"b">>)>>
         [] what = "pod"   -> PodEl(2, [primary |-> "true", subs |-> 1]))

\* results with that element in one place: a child of <queryresult>, of
\* <pod>, of <subpod> or in the middle of the text of <plaintext>
UnknownDocs ==
    {[target |-> "Result",
      tokens |->
        LET at(p) == IF p = place THEN AlternativeEl(what) ELSE <<>>
        IN  Root(<<A("success", sTrue), A("host", <<"h">>)>>,
                 at("result")
                   \o El("pod", <<A("numsubpods", <<"1">>), A("title", <<"t">>),
                                  A("primary", sTrue)>>,
                         at("pod")
                           \o El("subpod", <<A("title", <<>>)>>,
                                 at("subpod")
                                   \o El("plaintext", <<>>,
                                         <<TextTok(<<"c">>)>> \o at("plaintext")
                                           \o <<TextTok(<<"d">>)>>))))] :
        place \in UnknownPlaces, what \in UnknownContents}

\* <pod error="true"> with the <error> of the failure as its child, alone
\* (k subpods before the <error>) and as one of the pods of a result
FailedPodEl(k, code) ==
    El("pod", <<A("title", <<"t">>), A("error", sTrue), A("primary", sTrue)>>,
       Concat([j \in 1..k |-> SubpodEl(Label("p", 1, j))])
         \o El("error", <<>>,
                El("code", <<>>, <<TextTok(code)>>)
                  \o El("msg", <<>>, <<TextTok(AppidMissing)>>)))

FailedPodDocs ==
    {[target |-> "Pod", tokens |-> FailedPodEl(k, Numeral(c))] :
        k \in 0..MaxSubpods, c \in Variants}
      \cup {[target |-> "Result",
              tokens |-> Root(<<A("success", sTrue)>>,
                              PodEl(1, [primary |-> "none", subs |-> 1])
                                \o FailedPodEl(k, Numeral(c)))] :
                k \in 0..MaxSubpods, c \in Variants}

\* subpod j of a primary pod: with or without primary="true", and with a
\* plaintext, an empty <plaintext> or none
MarkedSubpodEl(j, shape) ==
    El("subpod",
       <<A("title", <<>>)>>
         \o (IF shape.primary THEN <<A("primary", sTrue)>> ELSE <<>>),
       CASE shape.text = "absent" -> <<>>
         [] shape.text = "empty"  -> El("plaintext", <<>>, <<>>)
         [] shape.text = "full"   -> El("plaintext", <<>>, <<TextTok(Label("p", 1, j))>>))

SubpodShapes == [primary : BOOLEAN, text : Presence]

\* results whose one pod is primary and has 1..MaxSubpods such subpods
MarkedSubpodDocs ==
    {[target |-> "Result",
      tokens |-> Root(<<A("success", sTrue)>>,
                      El("pod", <<A("title", <<"t">>), A("primary", sTrue)>>,
                         Concat([j \in 1..Len(ss) |-> MarkedSubpodEl(j, ss[j])])))] :
        ss \in Seqs(SubpodShapes, MaxSubpods) \ {<<>>}}

WellFormedDocs ==
    PodDocs \cup OptionalDocs \cup SubpodDocs \cup CoercionDocs \cup ListDocs
      \cup AssumptionDocs \cup TimedOutDocs \cup UnknownDocs \cup FragmentDocs
      \cup ValueDocs \cup ImageDocs \cup FailedDocs \cup FailedPodDocs
      \cup MarkedSubpodDocs
      \cup {TestPodDoc, TestErrorDoc, FullDoc}

\* input that stops being well-formed after its first c tokens
Truncated(d, c) == [target |-> d.target, tokens |-> SubSeq(d.tokens, 1, c) \o <<SyntaxTok>>]

MalformedDocs ==
    {Truncated(d, c) : <<d, c>> \in
        {<<TestPodDoc, c>> : c \in 0..(Len(TestPodDoc.tokens) - 1)}
          \cup {<<FullDoc, c>> : c \in 0..(Len(FullDoc.tokens) - 1)}}

\* a fragment unmarshalled into a struct of another element
MismatchDocs == {[target |-> "Pod", tokens |-> SubpodEl(<<"c">>)]}

Docs == WellFormedDocs \cup MalformedDocs \cup MismatchDocs

----------------------------------------------------------------------------

Init ==
    /\ \E d \in Docs : target = d.target /\ tokens = d.tokens
    /\ pos = 1
    /\ stack = <<>>
    /\ v = Zero(target)
    /\ err = NoError
    /\ pc = "find"
    /\ text = <<>>
    /\ perr = NoError
    /\ mime = <<>>
    /\ calls = <<>>
    /\ html = <<>>

Next ==
    \/ UnmarshalStart
    \/ LeadingData
    \/ StartElement
    \/ CharData
    \/ EndElement
    \/ SyntaxErrorStep
    \/ PrimaryTextCall
    \/ MimeCall

Spec == Init /\ [][Next]_vars

----------------------------------------------------------------------------
(* Concurrent callers: each goroutine calls xml.Unmarshal with its own      *)
(* bytes and its own value; a call's decoder, stack and result live in the  *)
(* call, and the package declares no variable.                              *)

\* inputs of the concurrent calls: fragments that decode, input that is not
\* well-formed, a malformed value, a fragment of another element
ConcurrentDocs ==
    {TestPodDoc,
     TestErrorDoc,
     Truncated(TestPodDoc, 6),
     [target |-> "Subpod", tokens |-> FullEl("Subpod", 1)],
     [target |-> "Result",
      tokens |-> CoercionDoc([position |-> "valid", primary |-> "valid", width |-> "malformed",
                              score |-> "valid", code |-> "valid"])],
     [target |-> "Pod", tokens |-> SubpodEl(<<"c">>)]}

\* two goroutines are about to call Unmarshal
InitConcurrent ==
    /\ \E d \in ConcurrentDocs, e \in ConcurrentDocs :
          calls = <<Call(d.target, d.tokens), Call(e.target, e.tokens)>>
    /\ target = "Result"
    /\ tokens = <<>>
    /\ pos = 1
    /\ stack = <<>>
    /\ v = Zero("Result")
    /\ err = NoError
    /\ pc = "find"
    /\ text = <<>>
    /\ perr = NoError
    /\ mime = <<>>
    /\ html = <<>>

\* CallStep with the error of a returning call kept in one place for all
CallStep_SharedError(c) ==
    /\ calls[c].pc # "done"
    /\ calls[c].pos <= Len(calls[c].tokens)
    /\ LET st == Step(calls[c])
       IN  calls' = [i \in DOMAIN calls |->
                        IF i = c THEN st
                        ELSE IF st.pc = "done" THEN [calls[i] EXCEPT !.err = st.err]
                        ELSE calls[i]]
    /\ UNCHANGED <<target, tokens, pos, stack, v, err, pc, text, perr, mime, html>>

\* the scheduler lets call c read and handle its next token
CallStep(c) ==
    /\ calls[c].pc # "done"
    /\ calls[c].pos <= Len(calls[c].tokens)
    /\ calls' = [calls EXCEPT ![c] = Step(calls[c])]
    /\ UNCHANGED <<target, tokens, pos, stack, v, err, pc, text, perr, mime, html>>

NextConcurrent == \E c \in DOMAIN calls : CallStep(c)

SpecConcurrent == InitConcurrent /\ [][NextConcurrent]_vars

----------------------------------------------------------------------------
(* Image.HTML and back: a caller holds an Image (decoded or built), takes  *)
(* its HTML snippet and unmarshals the snippet into a new Image.           *)

\* characters that Marshal escapes or replaces, and one it leaves alone
SpecialChars == {"a", "\"", "'", "&", "<", ">", "\r", "\f"}

\* the texts of up to MaxText such characters
SpecialTexts == Seqs(SpecialChars, MaxText)

xEquals0 == <<"x", " ", "=", " ", "0">>

\* the Images HTML is called on: the URL is any special text or the URL of
\* TestImage, the other texts are empty, "x = 0", or the text "&lt;" with
\* a quote; each dimension is 0 or that of TestImage
Images ==
    [URL    : SpecialTexts \cup {TestImageURL},
     Alt    : {<<>>, xEquals0, <<"&", "l", "t", ";", "\"">>},
     Title  : {<<>>, xEquals0},
     Width  : {0, 36},
     Height : {0, 18}]

InitHTML ==
    /\ target = "Image"
    /\ v \in Images
    /\ tokens = <<>>
    /\ pos = 1
    /\ stack = <<>>
    /\ err = NoError
    /\ pc = "done"
    /\ text = <<>>
    /\ perr = NoError
    /\ mime = <<>>
    /\ calls = <<>>
    /\ html = <<>>

NextHTML == HTMLCall \/ SnippetUnmarshal

SpecHTML == InitHTML /\ [][NextHTML]_vars

----------------------------------------------------------------------------
(* What a document says, read off its tokens *)

Decoded == pc \in {"done", "queried"} /\ err = NoError

WellFormed == \A i \in 1..Len(tokens) : tokens[i].t # "syntax"

\* nesting depth of token i: 0 for the root element's tags
DepthAt(i) ==
    Cardinality({j \in 1..(i - 1) : tokens[j].t = "start"})
      - Cardinality({j \in 1..(i - 1) : tokens[j].t = "end"})

SetToSeq(S) == [k \in 1..Cardinality(S) |-> CHOOSE i \in S : Cardinality({j \in S : j < i}) = k - 1]

\* indices, in document order, of the start tags <name> at depth d
StartsAt(d, name) ==
    SetToSeq({i \in 1..Len(tokens) :
                tokens[i].t = "start" /\ tokens[i].name = name /\ DepthAt(i) = d})

\* the value of attribute n of a start tag, "" when it has none
AttrOf(tok, n) ==
    LET hit == {i \in 1..Len(tok.attrs) : tok.attrs[i].n = n}
    IN  IF hit = {} THEN <<>> ELSE tok.attrs[CHOOSE i \in hit : TRUE].v

HasAttr(tok, n) == \E i \in 1..Len(tok.attrs) : tok.attrs[i].n = n

RootIdx == CHOOSE i \in 1..Len(tokens) : tokens[i].t = "start" /\ DepthAt(i) = 0

PrimaryPods(res) == {i \in 1..Len(res.Pods) : res.Pods[i].Primary}

FirstPrimary(res) == CHOOSE i \in PrimaryPods(res) : \A j \in PrimaryPods(res) : i <= j

----------------------------------------------------------------------------
(* Claims *)

\* C1: when some pod is primary and the first primary pod in document order
\* has subpods, PrimaryText returns, with no error, the Plaintext of
\* Subpods[0] of that pod.
C1_PrimaryTextOfFirstPrimaryPod ==
    (pc = "queried" /\ PrimaryPods(v) # {} /\ Len(v.Pods[FirstPrimary(v)].Subpods) > 0)
        => /\ perr = NoError
           /\ text = v.Pods[FirstPrimary(v)].Subpods[1].Plaintext

C1_Witness ==
    /\ pc = "queried"
    /\ PrimaryPods(v) = {2}
    /\ Len(v.Pods[2].Subpods) = 2
    /\ text = Label("p", 2, 1)

\* C2: when no pod is primary (an empty pod list included), PrimaryText
\* fails with "no primary pods" and returns no text.
C2_NoPrimaryPod ==
    (pc = "queried" /\ PrimaryPods(v) = {})
        => perr = NoPrimaryPods /\ text = <<>>

C2_Witness ==
    /\ pc = "queried"
    /\ Len(v.Pods) = 2
    /\ PrimaryPods(v) = {}
    /\ Len(v.Pods[1].Subpods) > 0
    /\ perr = NoPrimaryPods

\* C3: when the first primary pod has no subpods, PrimaryText fails with
\* "no subpods in first primary pod", whatever pods follow.
C3_NoSubpodsInFirstPrimaryPod ==
    (pc = "queried" /\ PrimaryPods(v) # {} /\ Len(v.Pods[FirstPrimary(v)].Subpods) = 0)
        => perr = NoSubpods /\ text = <<>>

C3_Witness ==
    /\ pc = "queried"
    /\ PrimaryPods(v) = {1, 2}
    /\ Len(v.Pods[1].Subpods) = 0
    /\ Len(v.Pods[2].Subpods) > 0
    /\ perr = NoSubpods

\* C4: decoding input that is not well-formed fails with the syntax error
\* and leaves nothing of the part read before the error in the caller's value.
C4_MalformedLeavesNoTree ==
    (pc = "done" /\ ~WellFormed) => err = SyntaxError /\ v = Zero(target)

\* C5: a <subpod> without <img> decodes to a nil Image, one with an empty
\* <img/> to a present Image with Width 0 and Height 0; likewise MathML and
\* <mathml>.
C5_AbsentImageIsNil ==
    (Decoded /\ target = "Subpod")
        => LET imgs == StartsAt(1, "img")
               maths == StartsAt(1, "mathml")
           IN  /\ (Len(imgs) = 0) = (v.Image = <<>>)
               /\ (Len(imgs) = 1 /\ tokens[imgs[1]].attrs = <<>>)
                     => (v.Image = <<Zero("Image")>>
                            /\ v.Image[1].Width = 0 /\ v.Image[1].Height = 0)
               /\ (Len(maths) = 0) = (v.MathML = <<>>)
               /\ (Len(maths) = 1 /\ tokens[maths[1] + 1].t = "end")
                     => v.MathML = <<Zero("MathML")>>

C5_Witness ==
    /\ Decoded
    /\ target = "Subpod"
    /\ Len(StartsAt(1, "img")) = 1
    /\ v.Image = <<Zero("Image")>>
    /\ Len(StartsAt(1, "mathml")) = 0
    /\ v.MathML = <<>>

OptionalFields ==
    << <<"examplepage", "ExamplePage">>, <<"futuretopic", "FutureTopic">>,
       <<"languagemsg", "LanguageMessage">>, <<"reinterpret", "Reinterpretation">> >>

\* C6: each optional element of a Result that the document lacks is left
\* absent, a state that differs from the one an empty element produces; in
\* particular Error is not a zero-valued Error when there is no <error>.
C6_OptionalAbsentDiffersFromEmpty ==
    (Decoded /\ target = "Result")
        => /\ \A i \in 1..Len(OptionalFields) :
                (Len(StartsAt(1, OptionalFields[i][1])) = 0) = (v[OptionalFields[i][2]] = <<>>)
           /\ Len(StartsAt(1, "error")) = 0 => v.Error # Zero("Error")

\* C7: a malformed numeric or boolean value in a well-formed document does
\* not fail the decode: no error is returned and the rest of the tree is
\* populated.
C7_MalformedValueTolerated ==
    (pc = "done" /\ WellFormed /\ target = "Result")
        => /\ err = NoError
           /\ Len(v.Pods) = Len(StartsAt(1, "pod"))
           /\ Len(v.Sources) = Len(StartsAt(1, "source"))

\* C8: an <assumption> with n <value> children decodes to n Values, the
\* i-th holding the name, desc and input of the i-th child.
C8_AssumptionValuesInOrder ==
    (Decoded /\ target = "Assumption")
        => LET vals == StartsAt(1, "value")
           IN  /\ Len(v.Values) = Len(vals)
               /\ \A i \in 1..Len(vals) :
                    v.Values[i] = [Name        |-> AttrOf(tokens[vals[i]], "name"),
                                   Description |-> AttrOf(tokens[vals[i]], "desc"),
                                   Input       |-> AttrOf(tokens[vals[i]], "input")]

C8_Witness ==
    /\ Decoded
    /\ target = "Assumption"
    /\ Len(v.Values) = 3
    /\ v.Values[1].Name = <<"N">>
    /\ v.Values[2].Name = <<"C">>
    /\ v.Values[3].Name = <<"N">>

\* the text of the element whose start tag is token i: its character data
\* outside child elements, in order
TextOf(i) ==
    LET close == CHOOSE j \in (i + 1)..Len(tokens) :
                    /\ tokens[j].t = "end" /\ DepthAt(j) = DepthAt(i) + 1
                    /\ \A k \in (i + 1)..(j - 1) :
                          ~(tokens[k].t = "end" /\ DepthAt(k) = DepthAt(i) + 1)
        data == SetToSeq({k \in (i + 1)..(close - 1) :
                            tokens[k].t = "text" /\ DepthAt(k) = DepthAt(i) + 1})
    IN  Concat([k \in 1..Len(data) |-> tokens[data[k]].s])

\* the start tags <name> at depth d inside the element that starts at token i
Within(i, d, name) ==
    LET all == StartsAt(d, name)
        close == CHOOSE j \in (i + 1)..Len(tokens) :
                    /\ tokens[j].t = "end" /\ DepthAt(j) = DepthAt(i) + 1
                    /\ \A k \in (i + 1)..(j - 1) :
                          ~(tokens[k].t = "end" /\ DepthAt(k) = DepthAt(i) + 1)
    IN  SelectSeq(all, LAMBDA k : i < k /\ k < close)

\* C9: every repeated-element field of a decoded Result has one entry per
\* element occurrence, in document order.
C9_RepeatedElementsInOrder ==
    (Decoded /\ target = "Result")
        => LET pods == StartsAt(1, "pod")
               sugg == StartsAt(1, "didyoumean")
               tips == StartsAt(2, "tip")
               srcs == StartsAt(1, "source")
               asms == StartsAt(1, "assumption")
           IN  /\ [i \in 1..Len(v.Pods) |-> v.Pods[i].Title]
                    = [i \in 1..Len(pods) |-> AttrOf(tokens[pods[i]], "title")]
               /\ \A i \in 1..Len(pods) :
                    [j \in 1..Len(v.Pods[i].Subpods) |-> v.Pods[i].Subpods[j].Plaintext]
                      = [j \in 1..Len(Within(pods[i], 2, "subpod")) |->
                            LET pt == Within(Within(pods[i], 2, "subpod")[j], 3, "plaintext")
                            IN  IF pt = <<>> THEN <<>> ELSE TextOf(pt[1])]
               /\ v.Suggestions = [i \in 1..Len(sugg) |-> TextOf(sugg[i])]
               /\ [i \in 1..Len(v.Tips) |-> v.Tips[i].Message]
                    = [i \in 1..Len(tips) |-> AttrOf(tokens[tips[i]], "text")]
               /\ [i \in 1..Len(v.Sources) |-> v.Sources[i].URL]
                    = [i \in 1..Len(srcs) |-> AttrOf(tokens[srcs[i]], "url")]
               /\ [i \in 1..Len(v.Assumptions) |-> v.Assumptions[i].Type]
                    = [i \in 1..Len(asms) |-> AttrOf(tokens[asms[i]], "type")]

C9_Witness ==
    /\ Decoded
    /\ target = "Result"
    /\ Len(v.Tips) = 4
    /\ v.Tips[3].Message = Label("i", 3, 1)
    /\ v.Sources = <<[URL |-> Label("u", 2, 0), Description |-> Label("s", 2, 0)]>>

RECURSIVE SplitComma(_)
\* strings.Split(s, ",")
SplitComma(s) ==
    LET commas == {i \in 1..Len(s) : s[i] = ","}
        c == CHOOSE i \in commas : \A j \in commas : i <= j
    IN  IF commas = {} THEN <<s>>
        ELSE <<SubSeq(s, 1, c - 1)>> \o SplitComma(SubSeq(s, c + 1, Len(s)))

\* the entries of Result.TimedOut as the code declares it, a string: its
\* elements are its characters
TimedOutEntries(res) == [i \in 1..Len(res.TimedOut) |-> <<res.TimedOut[i]>>]

\* C10 as stated: the timedout attribute decodes into the sequence of the
\* listed pod IDs, one entry per comma-separated item.
C10_TimedOutIsSequenceOfIDs ==
    (Decoded /\ target = "Result" /\ HasAttr(tokens[RootIdx], "timedout"))
        => \A ids \in Seqs(PodIDs, MaxTimedOut) :
              AttrOf(tokens[RootIdx], "timedout") = Join(ids, <<",">>)
                  => TimedOutEntries(v) = ids

\* C10 as amended: the timedout attribute decodes verbatim into the one
\* string TimedOut; the listed pod IDs, in the order written, are its
\* comma-separated items.
C10_TimedOutIsVerbatimString ==
    (Decoded /\ target = "Result")
        => /\ v.TimedOut = AttrOf(tokens[RootIdx], "timedout")
           /\ \A ids \in Seqs(PodIDs, MaxTimedOut) :
                (ids # <<>> /\ AttrOf(tokens[RootIdx], "timedout") = Join(ids, <<",">>))
                    => SplitComma(v.TimedOut) = ids

C10_Witness ==
    /\ Decoded
    /\ target = "Result"
    /\ v.TimedOut = <<"Q", "2", "2", ",", "P", "1">>
    /\ SplitComma(v.TimedOut) = << <<"Q", "2", "2">>, <<"P", "1">> >>

----------------------------------------------------------------------------

\* the attributes and elements of the documents that no struct has a field for
UnknownAttrs == {"numsubpods", "count", "host"}

UnknownElems == {"alternative"}

\* nesting depth of token i of toks
Depth(toks, i) ==
    Cardinality({j \in 1..(i - 1) : toks[j].t = "start"})
      - Cardinality({j \in 1..(i - 1) : toks[j].t = "end"})

\* token i of toks is a tag of an unknown element or lies inside one
InUnknown(toks, i) ==
    \E j \in 1..i :
        /\ toks[j].t = "start"
        /\ toks[j].name \in UnknownElems
        /\ \A k \in (j + 1)..(i - 1) :
              ~(toks[k].t = "end" /\ Depth(toks, k) = Depth(toks, j) + 1)

WithoutUnknownAttrs(tok) ==
    IF tok.t = "start"
    THEN [tok EXCEPT !.attrs = SelectSeq(@, LAMBDA a : a.n \notin UnknownAttrs)]
    ELSE tok

RECURSIVE StripFrom(_, _)
StripFrom(toks, i) ==
    IF i > Len(toks) THEN <<>>
    ELSE (IF InUnknown(toks, i) THEN <<>> ELSE <<WithoutUnknownAttrs(toks[i])>>)
           \o StripFrom(toks, i + 1)

\* the document toks without its unknown attributes and elements
Strip(toks) == StripFrom(toks, 1)

\* C11: a well-formed document and the same document without the attributes
\* and elements that no struct has a field for (count, numsubpods, host,
\* <alternative> and what it contains) decode alike: the same error result,
\* nil when either decodes, and equal values.
C11_UnknownIgnored ==
    (pc = "done" /\ WellFormed)
        => LET u == Unmarshal(target, Strip(tokens))
           IN  /\ err = u.err
               /\ v = u.v

C11_Witness ==
    /\ pc = "done"
    /\ err = NoError
    /\ target = "Result"
    /\ Len(Strip(tokens)) < Len(tokens)
    /\ \E i \in 1..Len(tokens) : tokens[i].t = "start" /\ HasAttr(tokens[i], "numsubpods")
    /\ Len(StartsAt(2, "alternative")) = 1
    /\ Len(StartsAt(3, "pod")) = 1
    /\ Len(v.Pods) = 1
    /\ v = Unmarshal(target, Strip(tokens)).v
    /\ v # Zero("Result")

----------------------------------------------------------------------------

RECURSIVE FullVal(_, _)
\* the struct the tests expect for the fragment FullEl(T, k)
FullVal(T, k) ==
    CASE T = "Assumption" ->
            [Type |-> Label("y", k, 0), Word |-> Label("w", k, 0),
             Template |-> Label("e", k, 0),
             Values |-> <<FullVal("AssumptionValue", k), FullVal("AssumptionValue", k + 1)>>]
      [] T = "AssumptionValue" ->
            [Name |-> Label("n", k, 0), Description |-> Label("d", k, 0),
             Input |-> Label("i", k, 0)]
      [] T = "Error" ->
            [Code |-> 10 * k + 6, Message |-> Label("m", k, 0)]
      [] T = "ExamplePage" ->
            [Topic |-> Label("c", k, 0), URL |-> Label("u", k, 0)]
      [] T = "FutureTopic" ->
            [Topic |-> Label("o", k, 0), Message |-> Label("m", k, 0)]
      [] T = "Image" ->
            [URL |-> Label("u", k, 0), Alt |-> Label("a", k, 0), Title |-> Label("t", k, 0),
             Width |-> 10 * k + 6, Height |-> 10 * (k + 1) + 6]
      [] T = "LanguageMessage" ->
            [English |-> Label("e", k, 0), Other |-> Label("o", k, 0)]
      [] T = "MathML" ->
            [Xml |-> <<"<", "math", ">">> \o Label("x", k, 0) \o <<"</", "math", ">">>]
      [] T = "Pod" ->
            [Title |-> Label("t", k, 0), Scanner |-> Label("s", k, 0), ID |-> Label("i", k, 0),
             Position |-> 100 * k + 60, Errored |-> TRUE, Primary |-> TRUE,
             Subpods |-> <<FullVal("Subpod", k), FullVal("Subpod", k + 1)>>]
      [] T = "Reinterpretation" ->
            [Message |-> Label("x", k, 0), Query |-> Label("n", k, 0),
             Score |-> [m |-> k, e |-> 1], Level |-> sHigh]
      [] T = "Result" ->
            [ID |-> Label("q", k, 0), Succeeded |-> TRUE, Errored |-> TRUE,
             Recalculate |-> Label("r", k, 0), DataTypes |-> Label("d", k, 0),
             ParseTiming |-> [m |-> 100 * k + 25, e |-> 2], ParseTimedOut |-> TRUE,
             Timing |-> [m |-> k, e |-> 1],
             TimedOut |-> Label("P", k, 0) \o <<",">> \o Label("Q", k, 0),
             Version |-> <<"2", ".", "6">>,
             Pods |-> <<FullVal("Pod", k)>>,
             Assumptions |-> <<FullVal("Assumption", k)>>,
             ExamplePage |-> <<FullVal("ExamplePage", k)>>,
             FutureTopic |-> <<FullVal("FutureTopic", k)>>,
             LanguageMessage |-> <<FullVal("LanguageMessage", k)>>,
             Reinterpretation |-> <<FullVal("Reinterpretation", k)>>,
             Suggestions |-> <<Label("g", k, 0), Label("h", k, 0)>>,
             Tips |-> <<FullVal("Tip", k), FullVal("Tip", k + 1)>>,
             Sources |-> <<FullVal("Source", k), FullVal("Source", k + 1)>>,
             Error |-> FullVal("Error", k)]
      [] T = "Source" ->
            [URL |-> Label("u", k, 0), Description |-> Label("s", k, 0)]
      [] T = "Subpod" ->
            [Title |-> Label("t", k, 0), Primary |-> TRUE,
             Plaintext |-> Label("p", k, 0),
             MathematicaInput |-> Label("i", k, 0), MathematicaOutput |-> Label("o", k, 0),
             Image |-> <<FullVal("Image", k)>>, MathML |-> <<FullVal("MathML", k)>>]
      [] T = "Tip" ->
            [Message |-> Label("x", k, 0)]

\* C12: for every struct, unmarshalling the fragment that carries all of
\* its attributes and children succeeds and leaves exactly the expected
\* struct: every field holds the value written in the fragment and no other
\* field exists; a Subpod has a present Image and a present MathML whose Xml
\* is the raw markup inside <mathml>, a Pod its six attributes and Subpods.
C12_FullFragmentDecodesExactly ==
    \A T \in Types, k \in Variants :
        (pc = "done" /\ target = T /\ tokens = FullEl(T, k))
            => err = NoError /\ v = FullVal(T, k)

C12_Witness ==
    /\ pc = "done"
    /\ target = "Pod"
    /\ tokens = FullEl("Pod", 2)
    /\ v = FullVal("Pod", 2)
    /\ v.Position = 260
    /\ Len(v.Subpods) = 2
    /\ v.Subpods[2].Image[1].Height = 46
    /\ v.Subpods[1].MathML[1].Xml = <<"<", "math", ">", "x", "2", "0", "</", "math", ">">>

----------------------------------------------------------------------------

\* the boolean a "true" or "false" attribute n of tag tok must give to field
\* value x: nothing is asked of other texts
BoolAgrees(tok, n, x) ==
    \A l \in BoolLiterals : (HasAttr(tok, n) /\ AttrOf(tok, n) = l.s) => x = l.b

\* the integer the numeral s must give to field value x
IntAgrees(s, x) == \A l \in IntLiterals : s = l.s => x = l.n

\* C13: in a decoded Result the attributes success, error, parsetimedout
\* and primary written "true" give true and written "false" give false;
\* position, width, height and the text of <code> written as a base-10
\* numeral give the integer it denotes; documents whose values are all of
\* these forms decode without error, and the <error> of the tests decodes to
\* Error{Code: 2, Message: "Appid missing"}.
C13_ValidValuesCoerced ==
    /\ (pc = "done" /\ [target |-> target, tokens |-> tokens] \in ValueDocs \cup {TestErrorDoc})
          => err = NoError
    /\ (pc = "done" /\ target = "Error" /\ tokens = TestErrorDoc.tokens)
          => v = [Code |-> 2, Message |-> AppidMissing]
    /\ (Decoded /\ target = "Result")
          => LET root == tokens[RootIdx]
                 pods == StartsAt(1, "pod")
                 errs == StartsAt(1, "error")
             IN  /\ BoolAgrees(root, "success", v.Succeeded)
                 /\ BoolAgrees(root, "error", v.Errored)
                 /\ BoolAgrees(root, "parsetimedout", v.ParseTimedOut)
                 /\ \A p \in 1..Len(pods) :
                      /\ BoolAgrees(tokens[pods[p]], "primary", v.Pods[p].Primary)
                      /\ HasAttr(tokens[pods[p]], "position")
                            => IntAgrees(AttrOf(tokens[pods[p]], "position"), v.Pods[p].Position)
                      /\ LET subs == Within(pods[p], 2, "subpod")
                         IN  \A q \in 1..Len(subs) :
                                LET imgs == Within(subs[q], 3, "img")
                                    img == tokens[imgs[Len(imgs)]]
                                    x == v.Pods[p].Subpods[q].Image[1]
                                IN  imgs # <<>> =>
                                      /\ HasAttr(img, "width")
                                            => IntAgrees(AttrOf(img, "width"), x.Width)
                                      /\ HasAttr(img, "height")
                                            => IntAgrees(AttrOf(img, "height"), x.Height)
                 /\ \A e \in 1..Len(errs) :
                      LET codes == Within(errs[e], 2, "code")
                      IN  (e = Len(errs) /\ codes # <<>>)
                            => IntAgrees(TextOf(codes[Len(codes)]), v.Error.Code)

C13_Witness ==
    /\ Decoded
    /\ target = "Result"
    /\ AttrOf(tokens[RootIdx], "success") = sFalse /\ ~v.Succeeded
    /\ AttrOf(tokens[RootIdx], "error") = sTrue /\ v.Errored
    /\ AttrOf(tokens[RootIdx], "parsetimedout") = sTrue /\ v.ParseTimedOut
    /\ Len(v.Pods) = 1
    /\ AttrOf(tokens[StartsAt(1, "pod")[1]], "primary") = sFalse /\ ~v.Pods[1].Primary
    /\ v.Pods[1].Position = 2
    /\ v.Pods[1].Subpods[1].Image[1].Width = 36
    /\ v.Error.Code = 36

C13_WitnessNumerals ==
    /\ Decoded
    /\ target = "Result"
    /\ Len(v.Pods) = 1
    /\ AttrOf(tokens[StartsAt(1, "pod")[1]], "position") = <<"0", "1", "8">>
    /\ v.Pods[1].Position = 18
    /\ v.Pods[1].Subpods[1].Image[1].Height = 18
    /\ v.Pods[1].Subpods[1].Image[1].Width = 100
    /\ v.Error.Code = 100

----------------------------------------------------------------------------

\* the MIME type a URL carries: the value of its first MSPStoreType
\* parameter; none when it has no such parameter or does not parse
Carried(u) ==
    LET hits == {i \in 1..Len(u.params) : u.params[i].key = MSPStoreType}
    IN  IF ~u.base.ok \/ ~u.frag.ok \/ hits = {} THEN <<>>
        ELSE u.params[CHOOSE i \in hits : \A j \in hits : i <= j].value

URLTable == {[url |-> URLText(u), mime |-> Carried(u)] : u \in URLSpecs}

\* C14: Mime returns the value of the MSPStoreType parameter of the image
\* URL and nothing of the parameters after it, and the empty string when the
\* URL has no MSPStoreType parameter or does not parse.
C14_MimeIsMSPStoreTypeValue ==
    (pc = "asked" /\ target = "Image")
        => \A e \in URLTable : v.URL = e.url => mime = e.mime

C14_Witness ==
    /\ pc = "asked"
    /\ target = "Image"
    /\ v.URL = <<"h", "t", "t", "p", ":", "/", "/", "x", "/", "5", "3", "?", "M", "S", "P", "S", "t", "o", "r", "e", "T", "y", "p", "e", "=", "i", "m", "a", "g", "e", "/", "g", "i", "f", "&", "s", "=", "1", "6">>
    /\ mime = ImageGif

C14_WitnessUnparsed ==
    /\ pc = "asked"
    /\ target = "Image"
    /\ v.URL = <<"h", "t", "t", "p", ":", "/", "/", "x", " ", "y", "/", "5", "3", "?", "M", "S", "P", "S", "t", "o", "r", "e", "T", "y", "p", "e", "=", "i", "m", "a", "g", "e", "/", "g", "i", "f">>
    /\ mime = <<>>

----------------------------------------------------------------------------

\* C15: a call of PrimaryText, whether it returns the text, "no primary
\* pods" or "no subpods in first primary pod", leaves the Result with all
\* its pods, subpods, images and MathML as it was, and changes nothing else
\* than its own two results.
C15_PrimaryTextReadOnly ==
    [][(target = "Result" /\ pc = "done" /\ pc' = "queried")
          => /\ v' = v
             /\ <<target, tokens, pos, stack, err, mime>>' = <<target, tokens, pos, stack, err, mime>>
             /\ perr' \in {NoError, NoPrimaryPods, NoSubpods}]_vars

C15_Witness ==
    /\ pc = "queried"
    /\ target = "Result"
    /\ perr = NoSubpods
    /\ Len(v.Pods) = 2
    /\ v.Pods[1].Primary
    /\ Len(v.Pods[2].Subpods) = 2
    /\ v = Unmarshal(target, tokens).v

\* pods that may follow the first primary pod
LaterPods ==
    {[Zero("Pod") EXCEPT !.Primary = p, !.Subpods = s] :
        p \in BOOLEAN,
        s \in {<<>>, <<[Zero("Subpod") EXCEPT !.Plaintext = <<"z">>]>>}}

\* C16: whatever pods follow the first primary pod of a Result, PrimaryText
\* returns the same text and the same error: the outcome for the pod list
\* cut after its first primary pod and continued with any other pods is the
\* outcome of the call.
C16_ShortCircuit ==
    (pc = "queried" /\ target = "Result" /\ PrimaryPods(v) # {})
        => \A later \in Seqs(LaterPods, MaxPods) :
              PrimaryText([v EXCEPT !.Pods = SubSeq(v.Pods, 1, FirstPrimary(v)) \o later])
                  = [text |-> text, err |-> perr]

C16_Witness ==
    /\ pc = "queried"
    /\ target = "Result"
    /\ Len(v.Pods) = 2
    /\ PrimaryPods(v) = {1, 2}
    /\ FirstPrimary(v) = 1
    /\ v.Pods[2].Primary
    /\ Len(v.Pods[1].Subpods) = 0
    /\ Len(v.Pods[2].Subpods) = 1
    /\ perr = NoSubpods

\* C17: PrimaryText of a Result whose Succeeded is false treats Pods as
\* empty, whatever pods the document carried: it fails with "no primary
\* pods".
C17_FailedResultHasNoPods ==
    (pc = "queried" /\ target = "Result" /\ ~v.Succeeded)
        => perr = NoPrimaryPods /\ text = <<>>

\* C18: a decoded Result with Errored set has its Error populated with the
\* code and message of an <error> child.
C18_ErroredHasError ==
    (Decoded /\ target = "Result" /\ v.Errored)
        => LET errs == StartsAt(1, "error")
           IN  /\ errs # <<>>
               /\ v.Error # Zero("Error")
               /\ Within(errs[Len(errs)], 2, "msg") # <<>>
               /\ v.Error.Message = TextOf(Within(errs[Len(errs)], 2, "msg")[1])

----------------------------------------------------------------------------

----------------------------------------------------------------------------

\* the document is a well-formed result whose children are pods and whose
\* pods say at most title, numsubpods and primary="true" or "false"
PodsOnly ==
    /\ target = "Result"
    /\ WellFormed
    /\ \A i \in 1..Len(tokens) :
          (tokens[i].t = "start" /\ DepthAt(i) = 1)
              => /\ tokens[i].name = "pod"
                 /\ \A a \in 1..Len(tokens[i].attrs) :
                       \/ tokens[i].attrs[a].n \in {"title", "numsubpods"}
                       \/ /\ tokens[i].attrs[a].n = "primary"
                          /\ tokens[i].attrs[a].v \in {sTrue, sFalse}

\* C20: Unmarshal never returns "no primary pods" or "no subpods in first
\* primary pod", which only a call of PrimaryText produces: a well-formed
\* result decodes without error and with all its pods whether or not a pod
\* is primary and whether or not a primary pod has subpods; and a decode
\* that fails ends by returning its error to the caller, in no other way.
C20_DecodeFailuresAreValues ==
    /\ pc \in {"find", "run", "done", "queried", "asked"}
    /\ err \in {NoError, SyntaxError, NumError, UnmarshalError}
    /\ pc \in {"find", "run", "done"} => perr = NoError
    /\ perr # NoError => pc = "queried" /\ perr \in {NoPrimaryPods, NoSubpods}
    /\ err # NoError => pc \in {"done", "queried", "asked"}
    /\ pos > Len(tokens) => pc \in {"done", "queried", "asked"}
    /\ (pc = "done" /\ PodsOnly)
          => err = NoError /\ Len(v.Pods) = Len(StartsAt(1, "pod"))

C20_Witness ==
    /\ pc = "done"
    /\ target = "Result"
    /\ err = NoError
    /\ perr = NoError
    /\ Len(v.Pods) = 2
    /\ PrimaryPods(v) = {1}
    /\ Len(v.Pods[1].Subpods) = 0

C20_WitnessNoPrimary ==
    /\ pc = "done"
    /\ target = "Result"
    /\ err = NoError
    /\ Len(v.Pods) = 2
    /\ PrimaryPods(v) = {}

C20_WitnessFailure ==
    /\ pc = "done"
    /\ target = "Result"
    /\ err = SyntaxError
    /\ pos > Len(tokens)

----------------------------------------------------------------------------

\* C21: every Pod of a Result decoded without error has at least one
\* Subpod; Unmarshal never produces a Pod with an empty Subpods list.
C21_EveryPodHasASubpod ==
    (pc = "done" /\ target = "Result" /\ err = NoError)
        => \A i \in 1..Len(v.Pods) : Len(v.Pods[i].Subpods) >= 1

\* C21, as the code has it: pod i of a Result decoded without error has as
\* many Subpods as the i-th <pod> element has <subpod> children, none when
\* it has none (the Subpods slice stays nil).
C21_SubpodsAsInDocument ==
    (pc = "done" /\ target = "Result" /\ err = NoError)
        => /\ Len(v.Pods) = Len(StartsAt(1, "pod"))
           /\ \A i \in 1..Len(v.Pods) :
                 Len(v.Pods[i].Subpods) = Len(Within(StartsAt(1, "pod")[i], 2, "subpod"))

C21_Witness ==
    /\ pc = "done"
    /\ target = "Result"
    /\ err = NoError
    /\ Len(v.Pods) = 2
    /\ Len(Within(StartsAt(1, "pod")[1], 2, "subpod")) = 0
    /\ v.Pods[1].Subpods = <<>>
    /\ Len(v.Pods[2].Subpods) = 2

----------------------------------------------------------------------------

\* the <pod> start tags of the document and the Pods decoded from them
PodTags == IF target = "Pod" THEN <<RootIdx>> ELSE StartsAt(1, "pod")

PodValues == IF target = "Pod" THEN <<v>> ELSE v.Pods

\* the Error that the <error> child starting at token e spells out
ErrorAt(e) ==
    [Code |-> CopyValue("int", TextOf(Within(e, DepthAt(e) + 1, "code")[1])).v,
     Message |-> TextOf(Within(e, DepthAt(e) + 1, "msg")[1])]

\* the struct value p holds x in one of its fields of type T
Carries(S, p, T, x) ==
    \E i \in 1..Len(TypeInfo(S)) :
        /\ TypeInfo(S)[i].kind = "struct"
        /\ TypeInfo(S)[i].type = T
        /\ \/ TypeInfo(S)[i].rep = "one" /\ p[TypeInfo(S)[i].go] = x
           \/ TypeInfo(S)[i].rep = "ptr" /\ p[TypeInfo(S)[i].go] = <<x>>

\* C22: a Pod decoded from a <pod> element that has an <error> child (code
\* and msg) carries that Error, with its code and message, in one of its
\* fields.
C22_FailedPodCarriesError ==
    (pc = "done" /\ target \in {"Pod", "Result"} /\ WellFormed /\ err = NoError)
        => \A i \in 1..Len(PodTags) :
              LET errors == Within(PodTags[i], DepthAt(PodTags[i]) + 1, "error")
              IN  (Len(errors) = 1 /\ Len(Within(errors[1], DepthAt(errors[1]) + 1, "code")) = 1)
                     => Carries("Pod", PodValues[i], "Error", ErrorAt(errors[1]))

----------------------------------------------------------------------------

\* C23: PrimaryText returns either a text with a nil error or a non-nil
\* error with the empty string, never a non-empty text together with an
\* error; the error is "no primary pods" exactly when no pod is primary and
\* "no subpods in first primary pod" exactly when the first primary pod has
\* no subpods, and the two errors differ.
C23_TextOrError ==
    pc = "queried"
        => /\ \/ perr = NoError
              \/ perr \in {NoPrimaryPods, NoSubpods} /\ text = <<>>
           /\ perr = NoPrimaryPods <=> PrimaryPods(v) = {}
           /\ perr = NoSubpods
                 <=> (PrimaryPods(v) # {} /\ v.Pods[FirstPrimary(v)].Subpods = <<>>)
           /\ NoPrimaryPods # NoSubpods
           /\ NoError \notin {NoPrimaryPods, NoSubpods}

C23_Witness ==
    /\ pc = "queried"
    /\ Len(v.Pods) = 2
    /\ PrimaryPods(v) = {2}
    /\ v.Pods[2].Title # <<>>
    /\ v.Pods[2].Subpods = <<>>
    /\ Len(v.Pods[1].Subpods) = 2
    /\ perr = NoSubpods
    /\ text = <<>>

C23_WitnessText ==
    /\ pc = "queried"
    /\ perr = NoError
    /\ text # <<>>

C23_WitnessNoPrimary ==
    /\ pc = "queried"
    /\ Len(v.Pods) = 2
    /\ perr = NoPrimaryPods
    /\ text = <<>>

----------------------------------------------------------------------------

\* the Result with everything forgotten but what PrimaryText consults: each
\* pod's Primary, whether it has subpods, and the Plaintext of Subpods[0]
Consulted(res) ==
    [Zero("Result") EXCEPT !.Pods =
        [i \in 1..Len(res.Pods) |->
            [Zero("Pod") EXCEPT
                !.Primary = res.Pods[i].Primary,
                !.Subpods = IF res.Pods[i].Subpods = <<>> THEN <<>>
                            ELSE <<[Zero("Subpod") EXCEPT
                                       !.Plaintext = res.Pods[i].Subpods[1].Plaintext]>>]]]

\* C24: PrimaryText consults only Pod.Primary and Subpods[0]: its outcome is
\* that of the Result reduced to those fields, so within the first primary
\* pod it is the Plaintext of the subpod at index 0 whether or not that
\* subpod is marked primary and whatever later subpods are marked; and an
\* empty Plaintext there is returned with no error.
C24_ConsultsOnlyPrimaryAndFirstSubpod ==
    pc = "queried"
        => /\ PrimaryText(Consulted(v)) = [text |-> text, err |-> perr]
           /\ (PrimaryPods(v) # {} /\ v.Pods[FirstPrimary(v)].Subpods # <<>>
                  /\ v.Pods[FirstPrimary(v)].Subpods[1].Plaintext = <<>>)
                 => (perr = NoError /\ text = <<>>)

C24_Witness ==
    /\ pc = "queried"
    /\ PrimaryPods(v) = {1}
    /\ Len(v.Pods[1].Subpods) = 2
    /\ ~v.Pods[1].Subpods[1].Primary
    /\ v.Pods[1].Subpods[2].Primary
    /\ v.Pods[1].Subpods[1].Plaintext = Label("p", 1, 1)
    /\ v.Pods[1].Subpods[2].Plaintext = Label("p", 1, 2)
    /\ text = Label("p", 1, 1)
    /\ perr = NoError

C24_WitnessEmpty ==
    /\ pc = "queried"
    /\ PrimaryPods(v) = {1}
    /\ Len(v.Pods[1].Subpods) = 2
    /\ v.Pods[1].Subpods[1].Plaintext = <<>>
    /\ v.Pods[1].Subpods[2].Primary
    /\ v.Pods[1].Subpods[2].Plaintext # <<>>
    /\ text = <<>>
    /\ perr = NoError

----------------------------------------------------------------------------

\* every character of the Image's texts is one XML allows
Legal(img) ==
    \A s \in {img.URL, img.Alt, img.Title} : \A k \in 1..Len(s) : InCharacterRange(s[k])

\* the text s with U+FFFD in place of the characters XML does not allow
Replaced(s) ==
    [k \in 1..Len(s) |-> IF InCharacterRange(s[k]) THEN s[k] ELSE ReplacementChar]

\* C25: for every Image img, unmarshalling the snippet img.HTML() returns
\* as an <img> element gives, with no error, an Image equal to img, also
\* when Width or Height is 0 and when URL, Alt or Title contain ", & or <.
C25_HTMLRoundTrip ==
    pc = "reread" => calls[1].err = NoError /\ calls[1].v = v

\* C25, as the code has it: the snippet always reads back with no error;
\* the Image read back equals img when the texts of img hold only
\* characters XML allows (", &, <, >, ' and carriage return included, and
\* with Width or Height 0), and otherwise differs from img only by U+FFFD
\* in place of each character XML does not allow.
C25_HTMLRoundTripOfLegalText ==
    /\ pc \in {"drawn", "reread"} => \A i \in 1..Len(Tokenize(html)) : Tokenize(html)[i].t # "syntax"
    /\ pc = "reread"
          => /\ calls[1].err = NoError
             /\ Legal(v) => calls[1].v = v
             /\ calls[1].v = [v EXCEPT !.URL = Replaced(v.URL),
                                       !.Alt = Replaced(v.Alt),
                                       !.Title = Replaced(v.Title)]

C25_Witness ==
    /\ pc = "reread"
    /\ v.URL = <<"\"", "<">>
    /\ v.Alt = <<"&", "l", "t", ";", "\"">>
    /\ v.Title = xEquals0
    /\ v.Width = 0
    /\ v.Height = 18
    /\ calls[1].err = NoError
    /\ calls[1].v = v

C25_WitnessReplaced ==
    /\ pc = "reread"
    /\ v.URL = <<"&", "\f">>
    /\ calls[1].err = NoError
    /\ calls[1].v.URL = <<"&", ReplacementChar>>

====
